---------------------------- MODULE Spec2Model ----------------------------
(***************************************************************************)
(* Model of the embedding-provider cache (EmbedderRegistry) of the         *)
(* repository and of the tasks that call it.                               *)
(*                                                                         *)
(* EmbedderRegistry._cache is one class-level dict shared by every task    *)
(* worker of the process.  The registry takes no lock, so a call is a      *)
(* sequence of steps (one per read or write of the shared dict) that may   *)
(* interleave with the steps of the other workers.  Spec lets a task begin *)
(* only when no other task is running (sequential histories); SpecConc     *)
(* lets the tasks of the workers interleave step by step.  SpecRun follows *)
(* one run_embedding task through the executions the task transport makes *)
(* of it.                                                                  *)
(***************************************************************************)
EXTENDS Integers, Sequences, FiniteSets, TLC

(***************************************************************************)
(* Bounds of the model.                                                    *)
(***************************************************************************)
MaxTime == 2
MaxTasks == 3
MaxSecondary == 2

\* self.retry(countdown=60, max_retries=3, exc=e)
RETRY_COUNTDOWN == 60
MAX_RETRIES == 3

\* Settings.WORKER_CONCURRENCY (and --concurrency=2 of the worker command line)
WORKER_CONCURRENCY == 2

Workers == 1 .. WORKER_CONCURRENCY

(***************************************************************************)
(* Inputs.  A credential dict is a record; a key the dict does not hold is *)
(* Missing.  NoneCredential is Python's None (run_embedding's default).    *)
(***************************************************************************)
Missing == "<missing>"

NoneCredential == [none |-> TRUE, api_key |-> Missing, base_url |-> Missing]

Dict(api_key, base_url) == [none |-> FALSE, api_key |-> api_key, base_url |-> base_url]

Providers == {"openai", "google", "azure"}

ModelIds == {"m1"}

Credentials ==
  { NoneCredential,
    Dict(Missing, Missing),
    Dict("sk-42659", Missing),
    Dict("sk-78065", Missing),
    Dict("sk-1", "https://api.example.com/v1") }

MaxAges == {0, 1}

\* hashlib.md5(s.encode()).hexdigest()[:8] of the strings the inputs hold
\* (the values are those Python computes).
md5_8(s) ==
  CASE s = "sk-42659" -> "0b33a57a"
    [] s = "sk-78065" -> "0b33a57a"
    [] s = "sk-1" -> "f6f8b1bd"
    [] s = "https://api.example.com/v1" -> "e362f115"

\* dict.get(field, default)
Get(credential, field, default) ==
  IF credential[field] = Missing THEN default ELSE credential[field]

\* truth value of a str: the empty string is false
Truthy(s) == s # ""

\* "... if api_key else 'no_key'"
api_key_hash(credential) ==
  LET api_key == Get(credential, "api_key", "")
  IN  IF Truthy(api_key) THEN md5_8(api_key) ELSE "no_key"

base_url_hash(credential) ==
  LET base_url == Get(credential, "base_url", "")
  IN  IF Truthy(base_url) THEN md5_8(base_url) ELSE "no_url"

\* EmbedderRegistry._create_cache_key, for a credential that is a dict
create_cache_key(model_id, provider, credential) ==
  provider \o ":" \o model_id \o ":" \o api_key_hash(credential)
           \o ":" \o base_url_hash(credential)

\* the calls of get_embedder: every credential with a provider that has a
\* client, one call for each provider that has none
GetEmbedderCalls ==
  { <<"openai", m, c>> : m \in ModelIds, c \in Credentials }
    \cup { <<p, m, Dict("sk-1", Missing)>> : p \in Providers \ {"openai"}, m \in ModelIds }

\* the calls of get_embedder that the workers run concurrently
ConcurrentCalls ==
  { <<"openai", m, c>> : m \in ModelIds,
                         c \in {Dict(Missing, Missing), Dict("sk-42659", Missing)} }

\* every key get_embedder can derive from the inputs
CacheKeys ==
  { create_cache_key(call[2], call[1], call[3]) :
      call \in { x \in GetEmbedderCalls : ~ x[3].none } }

\* the keys under which get_embedder can store an entry
StoredKeys ==
  { create_cache_key(call[2], call[1], call[3]) :
      call \in { x \in GetEmbedderCalls : ~ x[3].none /\ x[1] = "openai" } }

\* every string a caller passes to delete_embedder
DeleteArgs == ModelIds \cup StoredKeys

\* the strings passed to delete_embedder where the workers run concurrently
ConcurrentDeleteArgs ==
  { create_cache_key(call[2], call[1], call[3]) : call \in ConcurrentCalls }

(***************************************************************************)
(* Inputs of run_embedding.  None is Python's None: the default of         *)
(* file_id and chunks, and what a local holds before it is assigned.       *)
(***************************************************************************)
None == "<None>"

\* None where a list of chunks is expected
NoList == <<None>>

UserIds == {"u1"}

FileIds == {"f1"}

\* the chunk lists a caller supplies
ChunkLists == { <<>>, <<"a", "b">> }

\* get_file_by_id returned None
NoDoc == [none |-> TRUE, file_type |-> "", url |-> ""]

\* the documents of the files in the record store: their declared type and
\* their url, "" when they have none
FileDocs ==
  { [none |-> FALSE, file_type |-> "text/plain", url |-> ""],
    [none |-> FALSE, file_type |-> "image/png", url |-> ""] }

\* the page contents of the documents process_file_content returns, in the
\* order of the splitter
Splits == { <<>>, <<" ">>, <<" x ", "\n", "y">> }

\* len(vectors[0]) of the vectors a provider returns
Dimensions == {1, 2}

\* a plausible bug: only None counts as no chunks
NotEmpty_IsNotNone(list) == list # NoList

\* truth value of a list or None: None and the empty list are false
NotEmpty(list) == list # NoList /\ list # <<>>

\* a plausible bug: only the empty string counts as no file_id
NotBlank_NotEmptyString(str) == str # ""

\* truth value of a str or None
NotBlank(str) == str # None /\ str # ""

\* a plausible bug: the file is processed whenever a file_id is given
FromFile_Whenever(file_id, chunks) == NotBlank(file_id)

\* line 75: if file_id and not chunks
FromFile(file_id, chunks) == NotBlank(file_id) /\ ~ NotEmpty(chunks)

\* the keyword arguments of a run_embedding message
RunArgs ==
  [ user_id : UserIds,
    file_id : FileIds \cup {None},
    chunks : ChunkLists \cup {NoList},
    provider : {"openai"},
    model_id : ModelIds,
    credential : {NoneCredential, Dict(Missing, Missing)} ]

(***************************************************************************)
(* State.                                                                  *)
(*   now      the value time.time() returned last                          *)
(*   cache    EmbedderRegistry._cache: cache key -> entry                  *)
(*   slots    the dict's entries in insertion order (a deleted entry       *)
(*            leaves a Tombstone), which is the order an iteration follows *)
(*   clients  the embedder instances constructed so far, by identity       *)
(*   pc, loc, ret   per worker: position, arguments and locals of the      *)
(*            running call, and what the call returned or raised           *)
(* History (written, never read by the program's steps):                   *)
(*   built    per key, the instances constructed for it since its removal  *)
(*   handed   per key, the instances get_embedder returned since then      *)
(*   nret     per key, the get_embedder calls that returned since then     *)
(*   snap     per worker, the cache as it was when the running call began  *)
(*   begun    the tasks begun so far                                       *)
(*   last     the registry call that finished last                         *)
(* The world of run_embedding:                                             *)
(*   queue    the run_embedding messages the transport holds for retry     *)
(*   backend  what the transport knows of the run_embedding task submitted *)
(*            last: its arguments as submitted, its state, the executions  *)
(*            begun and the error types its attempts logged                *)
(*   points   the batches of points upserted into the vector index         *)
(*   records  the embedding records inserted into the record store         *)
(*   collection  the vector size of the collection of the vector index, 0  *)
(*            while the collection does not exist                          *)
(*   loops    the event loops run_async_in_thread created                   *)
(*   threads  the threads the executors of run_async_in_thread started      *)
(***************************************************************************)
VARIABLES now, cache, slots, clients, pc, loc, ret,
          built, handed, nret, snap, begun, last,
          queue, backend, points, records, collection, loops, threads

vars == <<now, cache, slots, clients, pc, loc, ret,
          built, handed, nret, snap, begun, last,
          queue, backend, points, records, collection, loops, threads>>

bridge == <<loops, threads>>

world == <<queue, backend, points, records, collection, bridge>>

history == <<built, handed, nret>>

Tombstone == "<deleted>"

EmptyCache == [k \in {} |-> 0]

\* run_embedding's arguments where there is no task
NoArgs ==
  [ user_id |-> "", file_id |-> None, chunks |-> NoList, provider |-> "",
    model_id |-> "", credential |-> NoneCredential ]

\* save_result before QdrantService.save_embeddings returned
NoReceipt == [status |-> "none", points_processed |-> 0]

\* what the transport knows before any run_embedding task is submitted
NoBackend ==
  [ args |-> NoArgs, state |-> "NONE", executions |-> 0, errors |-> {},
    result |-> [status |-> "none"] ]

\* the cache_info dict of get_cache_info before its loop
NoInfo == [total_cached_embedders |-> 0, embedders |-> EmptyCache]

NoLocals ==
  [ op |-> "none", provider |-> "", model_id |-> "", credential |-> NoneCredential,
    max_age_seconds |-> 0,
    cache_key |-> "", embedder_instance |-> 0, created_at |-> 0, last_used |-> 0,
    metadata |-> 0, use_count |-> 0,
    caller |-> "", del_key |-> "",
    current_time |-> 0, di_used |-> 0, di_pos |-> 0,
    keys_to_delete |-> <<>>, deleted_count |-> 0,
    cache_info |-> NoInfo,
    task |-> "none", args |-> NoArgs, retries |-> 0, start_time |-> 0,
    chunks |-> NoList, embedder |-> 0, vectors |-> <<>>,
    save_result |-> NoReceipt, embedding_record_id |-> None,
    exc |-> "", steps |-> <<>>, embedded |-> <<>>,
    points0 |-> <<>>, records0 |-> <<>>,
    thread |-> 0, loop |-> 0, file_doc |-> NoDoc, documents |-> NoList, temp_file |-> "none",
    outcome |-> [kind |-> "none", exc |-> "", chunks |-> NoList] ]

\* what is remembered of the task that finished last; removed holds the
\* entries that were cached when it began and are not when it ends
NoTask ==
  [op |-> "none", max_age_seconds |-> 0, current_time |-> 0, removed |-> EmptyCache]

NoResult ==
  [ kind |-> "none", embedder |-> 0, exc |-> "", deleted |-> FALSE, count |-> 0,
    cache_info |-> NoInfo, result |-> [status |-> "none"] ]

Returned(embedder) == [NoResult EXCEPT !.kind = "return", !.embedder = embedder]

ReturnedBool(b) == [NoResult EXCEPT !.kind = "return", !.deleted = b]

ReturnedCount(n) == [NoResult EXCEPT !.kind = "return", !.count = n]

ReturnedInfo(cache_info) == [NoResult EXCEPT !.kind = "return", !.cache_info = cache_info]

ReturnedResult(result) == [NoResult EXCEPT !.kind = "return", !.result = result]

Raised(exc) == [NoResult EXCEPT !.kind = "raise", !.exc = exc]

Init ==
  /\ now = 0
  /\ cache = EmptyCache
  /\ slots = <<>>
  /\ clients = <<>>
  /\ pc = [w \in Workers |-> "idle"]
  /\ loc = [w \in Workers |-> NoLocals]
  /\ ret = [w \in Workers |-> NoResult]
  /\ built = [k \in CacheKeys |-> {}]
  /\ handed = [k \in CacheKeys |-> {}]
  /\ nret = [k \in CacheKeys |-> 0]
  /\ snap = [w \in Workers |-> EmptyCache]
  /\ begun = 0
  /\ last = NoTask
  /\ queue = <<>>
  /\ backend = NoBackend
  /\ points = <<>>
  /\ records = <<>>
  /\ collection = 0
  /\ loops = <<>>
  /\ threads = <<>>

(***************************************************************************)
(* The dict operations and the entry of the cache.                         *)
(***************************************************************************)
\* a plausible bug: the membership test never finds the key
Cached_Never(c, key) == FALSE

\* key in cls._cache
Cached(c, key) == key \in DOMAIN c

\* cls._cache[key] = entry
Store(c, key, entry) ==
  [k \in DOMAIN c \cup {key} |-> IF k = key THEN entry ELSE c[k]]

\* a plausible bug: the deletion empties the cache
Remove_Clear(c, key) == EmptyCache

\* del cls._cache[key]
Remove(c, key) == [k \in DOMAIN c \ {key} |-> c[k]]

\* the entries array after cls._cache[key] = entry: a new key is appended
SlotsStore(c, s, key) == IF key \in DOMAIN c THEN s ELSE Append(s, key)

\* the entries array after del cls._cache[key]
SlotsRemove(s, key) == [i \in DOMAIN s |-> IF s[i] = key THEN Tombstone ELSE s[i]]

\* a plausible bug: a fresh entry counts its creating call as a use
NewEntry_CountsCreation(embedder, model_id, provider, credential, created_at, last_used) ==
  [ embedder |-> embedder, model_id |-> model_id, provider |-> provider,
    created_at |-> created_at, last_used |-> last_used, use_count |-> 1,
    api_key_hash |-> api_key_hash(credential) ]

\* the dict literal of get_embedder
NewEntry(embedder, model_id, provider, credential, created_at, last_used) ==
  [ embedder |-> embedder, model_id |-> model_id, provider |-> provider,
    created_at |-> created_at, last_used |-> last_used, use_count |-> 0,
    api_key_hash |-> api_key_hash(credential) ]

\* a plausible bug: the age of an entry is counted from its creation
Stale_SinceCreation(entry, current_time, max_age_seconds) ==
  (current_time - entry.created_at) > max_age_seconds

\* a plausible bug: the idle time is compared with >=
Stale_Inclusive(entry, current_time, max_age_seconds) ==
  (current_time - entry.last_used) >= max_age_seconds

\* the test of cleanup_old_embedders
Stale(entry, current_time, max_age_seconds) ==
  (current_time - entry.last_used) > max_age_seconds

\* the arguments an embedder instance was constructed with
Client(provider, model_id, credential) ==
  [ provider |-> provider, model |-> model_id,
    api_key |-> credential.api_key, base_url |-> credential.base_url ]

\* EmbedderRegistry._create_embedder: what the dispatch on the provider does
create_embedder(provider) ==
  CASE provider = "openai" -> "instance"
    [] provider = "huggingface" -> "instance"
    [] provider = "google" -> "NotImplementedError"
    [] OTHER -> "ValueError"

(***************************************************************************)
(* Steps of a worker.  Goto, Set and Finish write pc, loc and ret of w.    *)
(***************************************************************************)
Goto(w, label) == pc' = [pc EXCEPT ![w] = label]

\* the call of worker w ends with result r
Finish(w, r) ==
  /\ pc' = [pc EXCEPT ![w] = "done"]
  /\ ret' = [ret EXCEPT ![w] = r]

\* time.time(): the clock is read as t, not before the value read last
Time(t) == t \in now .. MaxTime /\ now' = t

(***************************************************************************)
(* A task calls EmbedderRegistry.get_embedder(provider, model_id,          *)
(* credential): run_embedding (embedding.py line 82, whose credential      *)
(* defaults to None) and search_similar (line 278).                        *)
(***************************************************************************)
CallGetEmbedder(w, provider, model_id, credential) ==
  /\ pc[w] = "idle"
  /\ Goto(w, "key")
  /\ loc' = [loc EXCEPT ![w] = [NoLocals EXCEPT !.op = "get", !.provider = provider,
                                   !.model_id = model_id, !.credential = credential]]
  /\ ret' = [ret EXCEPT ![w] = NoResult]
  /\ UNCHANGED <<now, cache, slots, clients, history, last, world>>

\* line 53: credential.get on None raises AttributeError
GetKey(w) ==
  /\ pc[w] = "key"
  /\ IF loc[w].credential.none
     THEN /\ Finish(w, Raised("AttributeError"))
          /\ UNCHANGED loc
     ELSE /\ Goto(w, "check")
          /\ loc' = [loc EXCEPT ![w].cache_key =
                       create_cache_key(loc[w].model_id, loc[w].provider, loc[w].credential)]
          /\ UNCHANGED ret
  /\ UNCHANGED <<now, cache, slots, clients, history, snap, begun, last, world>>

\* a plausible bug: the entry is stored before its client is constructed
GetCheck_InsertFirst(w) ==
  /\ pc[w] = "check"
  /\ IF ~ Cached(cache, loc[w].cache_key)
     THEN /\ cache' = Store(cache, loc[w].cache_key,
                           NewEntry(0, loc[w].model_id, loc[w].provider,
                                    loc[w].credential, now, now))
          /\ slots' = SlotsStore(cache, slots, loc[w].cache_key)
          /\ Goto(w, "create")
     ELSE /\ Goto(w, "touch_time")
          /\ UNCHANGED <<cache, slots>>
  /\ UNCHANGED <<now, clients, loc, ret, history, snap, begun, last, world>>

\* line 55: if cache_key not in cls._cache
GetCheck(w) ==
  /\ pc[w] = "check"
  /\ Goto(w, IF ~ Cached(cache, loc[w].cache_key) THEN "create" ELSE "touch_time")
  /\ UNCHANGED <<now, cache, slots, clients, loc, ret, history, snap, begun, last, world>>

\* a plausible bug: the instance made earlier for the same configuration is
\* handed out again
NewClient_Memoised(made, client) ==
  IF \E i \in DOMAIN made : made[i] = client
  THEN CHOOSE i \in DOMAIN made : made[i] = client
  ELSE Len(made) + 1

\* lines 98-118: _create_embedder constructs an instance, which is a new
\* object whatever was constructed before
NewClient(made, client) == Len(made) + 1

\* line 63: _create_embedder; a constructor of the provider's client may raise
GetCreate(w) ==
  /\ pc[w] = "create"
  /\ \E constructed \in BOOLEAN :
       IF create_embedder(loc[w].provider) = "instance" /\ constructed
       THEN LET client == Client(loc[w].provider, loc[w].model_id, loc[w].credential)
                id == NewClient(clients, client)
            IN  /\ clients' = IF id > Len(clients) THEN Append(clients, client)
                              ELSE clients
                /\ loc' = [loc EXCEPT ![w].embedder_instance = id]
                /\ built' = [built EXCEPT ![loc[w].cache_key] = @ \cup {id}]
                /\ Goto(w, "stamp_created")
                /\ UNCHANGED ret
       ELSE /\ Finish(w, Raised(IF create_embedder(loc[w].provider) = "instance"
                                THEN "ConstructorError"
                                ELSE create_embedder(loc[w].provider)))
            /\ UNCHANGED <<clients, loc, built>>
  /\ UNCHANGED <<now, cache, slots, handed, nret, snap, begun, last, world>>

\* line 70: "created_at": time.time()
GetStampCreated(w) ==
  /\ pc[w] = "stamp_created"
  /\ \E t \in now .. MaxTime :
       Time(t) /\ loc' = [loc EXCEPT ![w].created_at = t]
  /\ Goto(w, "stamp_last")
  /\ UNCHANGED <<cache, slots, clients, ret, history, snap, begun, last, world>>

\* line 71: "last_used": time.time()
GetStampLast(w) ==
  /\ pc[w] = "stamp_last"
  /\ \E t \in now .. MaxTime :
       Time(t) /\ loc' = [loc EXCEPT ![w].last_used = t]
  /\ Goto(w, "insert")
  /\ UNCHANGED <<cache, slots, clients, ret, history, snap, begun, last, world>>

\* lines 65-77: cls._cache[cache_key] = {...}
GetInsert(w) ==
  /\ pc[w] = "insert"
  /\ cache' = Store(cache, loc[w].cache_key,
                    NewEntry(loc[w].embedder_instance, loc[w].model_id, loc[w].provider,
                             loc[w].credential, loc[w].created_at, loc[w].last_used))
  /\ slots' = SlotsStore(cache, slots, loc[w].cache_key)
  /\ Goto(w, "return")
  /\ UNCHANGED <<now, clients, loc, ret, history, snap, begun, last, world>>

\* line 80, right-hand side: time.time()
GetTouchTime(w) ==
  /\ pc[w] = "touch_time"
  /\ \E t \in now .. MaxTime :
       Time(t) /\ loc' = [loc EXCEPT ![w].last_used = t]
  /\ Goto(w, "touch")
  /\ UNCHANGED <<cache, slots, clients, ret, history, snap, begun, last, world>>

\* line 80: cls._cache[cache_key]["metadata"]["last_used"] = ...
GetTouch(w) ==
  /\ pc[w] = "touch"
  /\ IF loc[w].cache_key \notin DOMAIN cache
     THEN /\ Finish(w, Raised("KeyError"))
          /\ UNCHANGED cache
     ELSE /\ cache' = [cache EXCEPT ![loc[w].cache_key].last_used = loc[w].last_used]
          /\ Goto(w, "read_count")
          /\ UNCHANGED ret
  /\ UNCHANGED <<now, slots, clients, loc, history, snap, begun, last, world>>

\* line 81, the read of "use_count" += 1: the metadata dict is looked up once
\* (it is named here by the instance its entry holds) and its counter is read
GetReadCount(w) ==
  /\ pc[w] = "read_count"
  /\ IF loc[w].cache_key \notin DOMAIN cache
     THEN /\ Finish(w, Raised("KeyError"))
          /\ UNCHANGED loc
     ELSE /\ loc' = [loc EXCEPT ![w].metadata = cache[loc[w].cache_key].embedder,
                                ![w].use_count = cache[loc[w].cache_key].use_count]
          /\ Goto(w, "write_count")
          /\ UNCHANGED ret
  /\ UNCHANGED <<now, cache, slots, clients, history, snap, begun, last, world>>

\* line 81, the write of "use_count" += 1, into the metadata dict that was
\* looked up: a dict that left the cache meanwhile is written and never seen
GetWriteCount(w) ==
  /\ pc[w] = "write_count"
  /\ cache' = IF /\ loc[w].cache_key \in DOMAIN cache
                 /\ cache[loc[w].cache_key].embedder = loc[w].metadata
              THEN [cache EXCEPT ![loc[w].cache_key].use_count = loc[w].use_count + 1]
              ELSE cache
  /\ Goto(w, "return")
  /\ UNCHANGED <<now, slots, clients, loc, ret, history, snap, begun, last, world>>

\* line 87 (hit) and line 90: return cls._cache[cache_key]["embedder"]
GetReturn(w) ==
  /\ pc[w] = "return"
  /\ IF loc[w].cache_key \notin DOMAIN cache
     THEN /\ Finish(w, Raised("KeyError"))
          /\ UNCHANGED <<handed, nret>>
     ELSE /\ Finish(w, Returned(cache[loc[w].cache_key].embedder))
          /\ handed' = [handed EXCEPT ![loc[w].cache_key] =
                          @ \cup {cache[loc[w].cache_key].embedder}]
          /\ nret' = [nret EXCEPT ![loc[w].cache_key] = @ + 1]
  /\ UNCHANGED <<now, cache, slots, clients, loc, built, snap, begun, last, world>>

(***************************************************************************)
(* EmbedderRegistry.delete_embedder(model_id), called by the delete_model  *)
(* task (embedding.py line 374) and by cleanup_old_embedders (line 195).   *)
(***************************************************************************)
CallDeleteModel(w, model_id) ==
  /\ pc[w] = "idle"
  /\ Goto(w, "del_check")
  \* line 131: cache_key = model_id
  /\ loc' = [loc EXCEPT ![w] = [NoLocals EXCEPT !.op = "delete", !.model_id = model_id,
                                   !.del_key = model_id, !.caller = "task"]]
  /\ ret' = [ret EXCEPT ![w] = NoResult]
  /\ UNCHANGED <<now, cache, slots, clients, history, last, world>>

\* delete_embedder returns b to its caller
DelReturn(w, b) ==
  IF loc[w].caller = "task"
  THEN /\ Finish(w, ReturnedBool(b))
       /\ UNCHANGED loc
  ELSE \* lines 195-196: if cls.delete_embedder(key): deleted_count += 1
       /\ Goto(w, "cl_del")
       /\ loc' = [loc EXCEPT ![w].deleted_count = IF b THEN @ + 1 ELSE @]
       /\ UNCHANGED ret

\* line 133: if cache_key in cls._cache; lines 145-150: return False
DelCheck(w) ==
  /\ pc[w] = "del_check"
  /\ IF Cached(cache, loc[w].del_key)
     THEN /\ Goto(w, "del_load")
          /\ UNCHANGED <<loc, ret>>
     ELSE DelReturn(w, FALSE)
  /\ UNCHANGED <<now, cache, slots, clients, history, snap, begun, last, world>>

\* line 134: metadata = cls._cache[cache_key]["metadata"]
DelLoad(w) ==
  /\ pc[w] = "del_load"
  /\ IF loc[w].del_key \in DOMAIN cache
     THEN Goto(w, "del_del") /\ UNCHANGED ret
     ELSE Finish(w, Raised("KeyError"))
  /\ UNCHANGED <<now, cache, slots, clients, loc, history, snap, begun, last, world>>

\* the history of key k when its entry is removed
Forget(h, k, v) == IF k \in DOMAIN h THEN [h EXCEPT ![k] = v] ELSE h

\* lines 143-144: del cls._cache[cache_key]; return True
DelDel(w) ==
  /\ pc[w] = "del_del"
  /\ IF loc[w].del_key \in DOMAIN cache
     THEN /\ cache' = Remove(cache, loc[w].del_key)
          /\ slots' = SlotsRemove(slots, loc[w].del_key)
          /\ built' = Forget(built, loc[w].del_key, {})
          /\ handed' = Forget(handed, loc[w].del_key, {})
          /\ nret' = Forget(nret, loc[w].del_key, 0)
          /\ DelReturn(w, TRUE)
     ELSE /\ Finish(w, Raised("KeyError"))
          /\ UNCHANGED <<cache, slots, loc, history>>
  /\ UNCHANGED <<now, clients, snap, begun, last, world>>

(***************************************************************************)
(* EmbedderRegistry.cleanup_old_embedders(max_age_seconds), called by the  *)
(* cleanup_old_models task (embedding.py line 415).                        *)
(***************************************************************************)
CallCleanup(w, max_age_seconds) ==
  /\ pc[w] = "idle"
  /\ Goto(w, "cl_time")
  /\ loc' = [loc EXCEPT ![w] = [NoLocals EXCEPT !.op = "cleanup",
                                   !.max_age_seconds = max_age_seconds]]
  /\ ret' = [ret EXCEPT ![w] = NoResult]
  /\ UNCHANGED <<now, cache, slots, clients, history, last, world>>

\* lines 185-186: current_time = time.time(); keys_to_delete = []
CleanupTime(w) ==
  /\ pc[w] = "cl_time"
  /\ \E t \in now .. MaxTime :
       Time(t) /\ loc' = [loc EXCEPT ![w].current_time = t, ![w].keys_to_delete = <<>>]
  /\ Goto(w, "cl_iter")
  /\ UNCHANGED <<cache, slots, clients, ret, history, snap, begun, last, world>>

\* line 188: iter(cls._cache.items()) notes the dict's size and starts at
\* its first entry
CleanupIter(w) ==
  /\ pc[w] = "cl_iter"
  /\ loc' = [loc EXCEPT ![w].di_used = Cardinality(DOMAIN cache), ![w].di_pos = 1]
  /\ Goto(w, "cl_next")
  /\ UNCHANGED <<now, cache, slots, clients, ret, history, snap, begun, last, world>>

\* the live entries of the dict at or after position pos
LiveFrom(pos) == { i \in DOMAIN slots : i >= pos /\ slots[i] # Tombstone }

Min(S) == CHOOSE x \in S : \A y \in S : x <= y

\* lines 188-191: one turn of the loop.  The iterator raises RuntimeError
\* when the dict changed size, ends after the last entry, and otherwise
\* yields the next live entry.
CleanupNext(w) ==
  /\ pc[w] = "cl_next"
  /\ IF Cardinality(DOMAIN cache) # loc[w].di_used
     THEN /\ Finish(w, Raised("RuntimeError"))
          /\ UNCHANGED loc
     ELSE IF LiveFrom(loc[w].di_pos) = {}
          THEN /\ Goto(w, "cl_del")
               /\ UNCHANGED <<loc, ret>>
          ELSE LET i == Min(LiveFrom(loc[w].di_pos))
                   cache_key == slots[i]
               IN  /\ loc' = [loc EXCEPT
                                ![w].di_pos = i + 1,
                                ![w].keys_to_delete =
                                   IF Stale(cache[cache_key], loc[w].current_time,
                                            loc[w].max_age_seconds)
                                   THEN Append(@, cache_key) ELSE @]
                   /\ Goto(w, "cl_next")
                   /\ UNCHANGED ret
  /\ UNCHANGED <<now, cache, slots, clients, history, snap, begun, last, world>>

\* lines 193-195 and 204: the next key to delete, or return deleted_count
CleanupDelete(w) ==
  /\ pc[w] = "cl_del"
  /\ IF loc[w].keys_to_delete = <<>>
     THEN /\ Finish(w, ReturnedCount(loc[w].deleted_count))
          /\ UNCHANGED loc
     ELSE /\ loc' = [loc EXCEPT ![w].del_key = Head(loc[w].keys_to_delete),
                                ![w].keys_to_delete = Tail(loc[w].keys_to_delete),
                                ![w].caller = "cleanup"]
          /\ Goto(w, "del_check")
          /\ UNCHANGED ret
  /\ UNCHANGED <<now, cache, slots, clients, history, snap, begun, last, world>>

(***************************************************************************)
(* EmbedderRegistry.get_cache_info(), called by the get_cache_info task    *)
(* (embedding.py line 448).                                                *)
(***************************************************************************)
CallCacheInfo(w) ==
  /\ pc[w] = "idle"
  /\ Goto(w, "ci_len")
  /\ loc' = [loc EXCEPT ![w] = [NoLocals EXCEPT !.op = "info"]]
  /\ ret' = [ret EXCEPT ![w] = NoResult]
  /\ UNCHANGED <<now, cache, slots, clients, history, last, world>>

\* lines 155-158: cache_info = {"total_cached_embedders": len(cls._cache),
\* "embedders": {}}
InfoLen(w) ==
  /\ pc[w] = "ci_len"
  /\ loc' = [loc EXCEPT ![w].cache_info =
               [total_cached_embedders |-> Cardinality(DOMAIN cache),
                embedders |-> EmptyCache]]
  /\ Goto(w, "ci_iter")
  /\ UNCHANGED <<now, cache, slots, clients, ret, history, snap, begun, last, world>>

\* line 160: iter(cls._cache.items())
InfoIter(w) ==
  /\ pc[w] = "ci_iter"
  /\ loc' = [loc EXCEPT ![w].di_used = Cardinality(DOMAIN cache), ![w].di_pos = 1]
  /\ Goto(w, "ci_next")
  /\ UNCHANGED <<now, cache, slots, clients, ret, history, snap, begun, last, world>>

\* a plausible bug: the age of an entry is counted from its last use
Listing_SinceLastUse(entry, t) ==
  [ model_id |-> entry.model_id, provider |-> entry.provider,
    created_at |-> entry.created_at, last_used |-> entry.last_used,
    use_count |-> entry.use_count, api_key_hash |-> entry.api_key_hash,
    age_seconds |-> t - entry.last_used ]

\* lines 162-170: what get_cache_info lists of an entry when time.time()
\* returns t
Listing(entry, t) ==
  [ model_id |-> entry.model_id, provider |-> entry.provider,
    created_at |-> entry.created_at, last_used |-> entry.last_used,
    use_count |-> entry.use_count, api_key_hash |-> entry.api_key_hash,
    age_seconds |-> t - entry.created_at ]

\* lines 160-172: one turn of the loop, or return cache_info after the last
\* entry; the iterator raises RuntimeError when the dict changed size
InfoNext(w) ==
  /\ pc[w] = "ci_next"
  /\ IF Cardinality(DOMAIN cache) # loc[w].di_used
     THEN /\ Finish(w, Raised("RuntimeError"))
          /\ UNCHANGED <<now, loc>>
     ELSE IF LiveFrom(loc[w].di_pos) = {}
          THEN /\ Finish(w, ReturnedInfo(loc[w].cache_info))
               /\ UNCHANGED <<now, loc>>
          ELSE LET i == Min(LiveFrom(loc[w].di_pos))
                   cache_key == slots[i]
               IN  /\ \E t \in now .. MaxTime :
                        /\ Time(t)
                        /\ loc' = [loc EXCEPT
                                     ![w].di_pos = i + 1,
                                     ![w].cache_info.embedders =
                                        Store(@, cache_key, Listing(cache[cache_key], t))]
                   /\ Goto(w, "ci_next")
                   /\ UNCHANGED ret
  /\ UNCHANGED <<cache, slots, clients, history, snap, begun, last, world>>

(***************************************************************************)
(* The result a task hands to the transport: delete_model and              *)
(* cleanup_old_models catch every exception and return an error result.    *)
(***************************************************************************)
TaskResult(w) ==
  IF ret[w].kind = "raise"
  THEN [status |-> "error", error_type |-> ret[w].exc, deleted |-> FALSE, deleted_count |-> 0]
  ELSE [status |-> "success", error_type |-> "", deleted |-> ret[w].deleted,
        deleted_count |-> ret[w].count]

\* the task of worker w is over and the worker takes the next one
TaskDone(w) ==
  /\ pc[w] = "done"
  /\ loc[w].task = "none"
  /\ Goto(w, "idle")
  /\ loc' = [loc EXCEPT ![w] = NoLocals]
  /\ ret' = [ret EXCEPT ![w] = NoResult]
  /\ snap' = [snap EXCEPT ![w] = EmptyCache]
  /\ last' = [op |-> loc[w].op, max_age_seconds |-> loc[w].max_age_seconds,
              current_time |-> loc[w].current_time,
              removed |-> [k \in DOMAIN snap[w] \ DOMAIN cache |-> snap[w][k]]]
  /\ UNCHANGED <<now, cache, slots, clients, history, begun, world>>

(***************************************************************************)
(* The run_embedding task (embedding.py lines 44-163).  An execution of    *)
(* the task is the delivery of a message: its keyword arguments and the    *)
(* number of retries made before it (self.request.retries).                *)
(***************************************************************************)
Message(args, retries, countdown) ==
  [args |-> args, retries |-> retries, countdown |-> countdown]

\* a worker begins to execute message msg: the parameters of run_embedding
\* are bound to the message's arguments; points0 and records0 note the stores
\* as the execution finds them (history, never read by a step)
Execute(w, msg) ==
  /\ pc[w] = "idle"
  /\ Goto(w, "re_start")
  /\ loc' = [loc EXCEPT ![w] = [NoLocals EXCEPT !.task = "run", !.args = msg.args,
                                   !.retries = msg.retries,
                                   !.chunks = msg.args.chunks,
                                   !.points0 = points, !.records0 = records]]
  /\ ret' = [ret EXCEPT ![w] = NoResult]
  /\ snap' = [snap EXCEPT ![w] = cache]

\* a caller submits a run_embedding task and a worker begins its first
\* execution
SubmitRun(w, args) ==
  /\ Execute(w, Message(args, 0, 0))
  /\ backend' = [NoBackend EXCEPT !.args = args, !.state = "STARTED", !.executions = 1]
  /\ UNCHANGED <<now, cache, slots, clients, history, last, queue, points, records, collection, bridge>>

\* the transport delivers the message of a retry
Redeliver(w) ==
  /\ queue # <<>>
  /\ Execute(w, Head(queue))
  /\ queue' = Tail(queue)
  /\ backend' = [backend EXCEPT !.state = "STARTED", !.executions = @ + 1]
  /\ UNCHANGED <<now, cache, slots, clients, history, begun, last, points, records, collection, bridge>>

\* the attempt of worker w calls a collaborator
Called(w, call) == [loc EXCEPT ![w].steps = Append(@, call)]

\* a plausible bug: the exception is swallowed and the attempt goes on to
\* its result
RunRaise_Swallow(w, l, exc) ==
  /\ Goto(w, "re_result")
  /\ loc' = l

\* an exception of type exc is raised inside the try block (lines 72-141)
RunRaise(w, l, exc) ==
  /\ Goto(w, "re_except")
  /\ loc' = [l EXCEPT ![w].exc = exc]

\* line 70: start_time = time.time()
RunStart(w) ==
  /\ pc[w] = "re_start"
  /\ \E t \in now .. MaxTime :
       Time(t) /\ loc' = [loc EXCEPT ![w].start_time = t]
  /\ Goto(w, "re_resolve")
  /\ UNCHANGED <<cache, slots, clients, ret, history, snap, begun, last, world>>

\* lines 75-76: if file_id and not chunks: chunks = run_async_in_thread(
\* _process_file_for_embedding, file_id, split_config)
RunResolve(w) ==
  /\ pc[w] = "re_resolve"
  /\ IF FromFile(loc[w].args.file_id, loc[w].chunks)
     THEN Goto(w, "br_submit")
     ELSE Goto(w, "re_check")
  /\ UNCHANGED <<now, cache, slots, clients, loc, ret, history, snap, begun, last, world>>

(***************************************************************************)
(* run_async_in_thread (embedding.py lines 18-41) and the helper it runs,  *)
(* _process_file_for_embedding (lines 166-238).                            *)
(***************************************************************************)
\* the value at index i of sequence s becomes v; the sequence grows by one
\* when i is past its end
Put(s, i, v) ==
  [j \in 1 .. (IF i > Len(s) THEN i ELSE Len(s)) |-> IF j = i THEN v ELSE s[j]]

\* line 39: ThreadPoolExecutor(max_workers=1) is made for the call; the
\* thread it starts is a new one
NewThread(started) == Len(started) + 1

\* a plausible bug: the loop is the one asyncio.get_event_loop() would give
new_event_loop_Shared(made) == 1

\* line 23: asyncio.new_event_loop() makes a loop that did not exist
new_event_loop(made) == Len(made) + 1

\* a plausible bug: the loop is closed on the success path only
Close_OnSuccess(loop, outcome) ==
  IF outcome.kind = "return" THEN [loop EXCEPT !.state = "closed"] ELSE loop

\* lines 34-35: finally: loop.close(), whatever the outcome of the operation
Close(loop, outcome) == [loop EXCEPT !.state = "closed"]

\* lines 39-40: executor.submit(run_in_new_loop): the thread of the
\* executor is started
BridgeSubmit(w) ==
  /\ pc[w] = "br_submit"
  /\ LET thread == NewThread(threads)
     IN  /\ threads' = Put(threads, thread, [state |-> "running", caller |-> w])
         /\ loc' = [loc EXCEPT ![w].thread = thread]
  /\ Goto(w, "br_loop")
  /\ UNCHANGED <<now, cache, slots, clients, ret, history, snap, begun, last,
                 queue, backend, points, records, collection, loops>>

\* lines 23-24: loop = asyncio.new_event_loop(); asyncio.set_event_loop(loop)
BridgeLoop(w) ==
  /\ pc[w] = "br_loop"
  /\ LET loop == new_event_loop(loops)
     IN  /\ loops' = Put(loops, loop, [state |-> "open", thread |-> loc[w].thread])
         /\ loc' = [loc EXCEPT ![w].loop = loop]
  /\ Goto(w, "pl_lookup")
  /\ UNCHANGED <<now, cache, slots, clients, ret, history, snap, begun, last,
                 queue, backend, points, records, collection, threads>>

\* _process_file_for_embedding raises exc in the loop
PipeRaise(w, l, exc) ==
  /\ Goto(w, "br_close")
  /\ loc' = [l EXCEPT ![w].outcome = [kind |-> "raise", exc |-> exc, chunks |-> NoList]]

\* lines 188-197: file_doc = await get_file_by_id(file_id); the record store
\* raises, or returns None (File not found), or returns the file's document
PipeLookup(w) ==
  /\ pc[w] = "pl_lookup"
  /\ \/ PipeRaise(w, Called(w, "get_file_by_id"), "StoreError")
     \/ PipeRaise(w, Called(w, "get_file_by_id"), "ValueError")
     \/ \E file_doc \in FileDocs :
          /\ loc' = [Called(w, "get_file_by_id") EXCEPT ![w].file_doc = file_doc]
          /\ Goto(w, "pl_type")
  /\ UNCHANGED <<now, cache, slots, clients, ret, history, snap, begun, last, world>>

\* a plausible bug: every declared type is taken as supported
is_supported_file_type_Any(file_type) == TRUE

\* text_processor.py lines 286-306: file_type in get_supported_file_types()
is_supported_file_type(file_type) ==
  file_type \in
    { "text/plain", "text/csv", "application/json", "text/markdown",
      "application/pdf",
      "application/vnd.openxmlformats-officedocument.wordprocessingml.document",
      "application/vnd.openxmlformats-officedocument.spreadsheetml.sheet",
      "application/vnd.ms-excel",
      "application/vnd.openxmlformats-officedocument.presentationml.presentation",
      "application/vnd.ms-powerpoint", "text/html", "application/xml", "text/xml" }

\* lines 208-213: MinioService() and LangChainTextProcessor() are made (no
\* call of the blob store), then if not is_supported_file_type(file_type):
\* raise ValueError
PipeType(w) ==
  /\ pc[w] = "pl_type"
  /\ IF is_supported_file_type(loc[w].file_doc.file_type)
     THEN /\ loc' = Called(w, "is_supported_file_type")
          /\ Goto(w, "pl_download")
     ELSE PipeRaise(w, Called(w, "is_supported_file_type"), "ValueError")
  /\ UNCHANGED <<now, cache, slots, clients, ret, history, snap, begun, last, world>>

\* lines 216-219: the content is downloaded by the url of the document when
\* it has one, else by bucket and path; the blob store raises or returns it
PipeDownload(w) ==
  /\ pc[w] = "pl_download"
  /\ LET call == IF Truthy(loc[w].file_doc.url)
                 THEN "download_file_by_url" ELSE "download_file_by_path"
     IN  \/ PipeRaise(w, Called(w, call), "StoreError")
         \/ /\ loc' = Called(w, call)
            /\ Goto(w, "pl_process")
  /\ UNCHANGED <<now, cache, slots, clients, ret, history, snap, begun, last, world>>

\* minio.py lines 249-274: create_temp_file makes a NamedTemporaryFile with
\* delete=False, writes the content and returns the path; when the file
\* cannot be made no file exists, and when the write raises the file stays
\* (the except clause logs and raises again)
create_temp_file(made, written) ==
  IF ~ made THEN [raised |-> TRUE, temp_file |-> "none"]
  ELSE IF ~ written THEN [raised |-> TRUE, temp_file |-> "exists"]
  ELSE [raised |-> FALSE, temp_file |-> "exists"]

\* minio.py lines 283-292: cleanup_temp_file unlinks the file when it exists;
\* a failure of os.unlink is logged as a warning and not raised
cleanup_temp_file(temp_file, unlinked) ==
  IF temp_file = "exists" /\ unlinked THEN "removed" ELSE temp_file

\* lines 222-230 and text_processor.py lines 35-96: process_file_content
\* writes the content to a temporary file, loads and splits the documents
\* and cleans the temporary file up in its finally clause; a loader or the
\* splitter raises, or the page contents of the documents are returned; no
\* documents is a ValueError
PipeProcess(w) ==
  /\ pc[w] = "pl_process"
  /\ \E made, written, unlinked \in BOOLEAN :
       LET temp == create_temp_file(made, written)
           l == [Called(w, "create_temp_file") EXCEPT
                   ![w].steps = @ \o <<"load_documents", "cleanup_temp_file">>,
                   ![w].temp_file = cleanup_temp_file(temp.temp_file, unlinked)]
       IN  IF temp.raised
           THEN /\ unlinked
                /\ PipeRaise(w, [Called(w, "create_temp_file") EXCEPT
                                   ![w].temp_file = temp.temp_file], "StoreError")
           ELSE \/ PipeRaise(w, l, "LoaderError")
                \/ \E documents \in Splits :
                     IF documents = <<>>
                     THEN PipeRaise(w, [l EXCEPT ![w].documents = documents], "ValueError")
                     ELSE /\ loc' = [l EXCEPT ![w].documents = documents]
                          /\ Goto(w, "pl_extract")
  /\ UNCHANGED <<now, cache, slots, clients, ret, history, snap, begun, last, world>>

\* str.strip() of the page contents of the model
strip(str) ==
  CASE str \in {"", " ", "\n"} -> ""
    [] str = " x " -> "x"
    [] OTHER -> str

\* a plausible bug: every page content is kept
extract_text_chunks_All(documents) == documents

\* text_processor.py line 284: [doc.page_content for doc in documents if
\* doc.page_content.strip()]
extract_text_chunks(documents) ==
  SelectSeq(documents, LAMBDA page_content : Truthy(strip(page_content)))

\* lines 233-238: final_chunks = extract_text_chunks(documents); no chunk
\* left is a ValueError; return final_chunks
PipeExtract(w) ==
  /\ pc[w] = "pl_extract"
  /\ LET final_chunks == extract_text_chunks(loc[w].documents)
     IN  IF final_chunks = <<>>
         THEN PipeRaise(w, loc, "ValueError")
         ELSE /\ loc' = [loc EXCEPT ![w].outcome =
                           [kind |-> "return", exc |-> "", chunks |-> final_chunks]]
              /\ Goto(w, "br_close")
  /\ UNCHANGED <<now, cache, slots, clients, ret, history, snap, begun, last, world>>

\* lines 26-35: run_until_complete returned or raised; the except clause
\* raises the exception again and the finally clause closes the loop
BridgeClose(w) ==
  /\ pc[w] = "br_close"
  /\ loops' = [loops EXCEPT ![loc[w].loop] = Close(@, loc[w].outcome)]
  /\ Goto(w, "br_join")
  /\ UNCHANGED <<now, cache, slots, clients, loc, ret, history, snap, begun, last,
                 queue, backend, points, records, collection, threads>>

\* lines 39-41: future.result() returns or raises, and the with statement
\* shuts the executor down, which joins its thread
BridgeJoin(w) ==
  /\ pc[w] = "br_join"
  /\ threads' = [threads EXCEPT ![loc[w].thread].state = "joined"]
  /\ Goto(w, "br_return")
  /\ UNCHANGED <<now, cache, slots, clients, loc, ret, history, snap, begun, last,
                 queue, backend, points, records, collection, loops>>

\* line 41 and line 76: run_async_in_thread returns the chunks to
\* run_embedding, which assigns them, or raises the exception in its try
\* block; nothing in run_embedding names the temporary file, which is
\* followed no further
BridgeReturn(w) ==
  /\ pc[w] = "br_return"
  /\ IF loc[w].outcome.kind = "raise"
     THEN RunRaise(w, [loc EXCEPT ![w].temp_file = "none"], loc[w].outcome.exc)
     ELSE /\ loc' = [loc EXCEPT ![w].chunks = loc[w].outcome.chunks,
                                ![w].temp_file = "none"]
          /\ Goto(w, "re_check")
  /\ UNCHANGED <<now, cache, slots, clients, ret, history, snap, begun, last, world>>

\* lines 78-79: if not chunks: raise ValueError("No chunks provided for
\* embedding")
RunCheck(w) ==
  /\ pc[w] = "re_check"
  /\ IF ~ NotEmpty(loc[w].chunks)
     THEN RunRaise(w, loc, "ValueError")
     ELSE Goto(w, "re_get") /\ UNCHANGED loc
  /\ UNCHANGED <<now, cache, slots, clients, ret, history, snap, begun, last, world>>

\* line 82: embedder = EmbedderRegistry.get_embedder(provider, model_id,
\* credential); the call runs the steps of get_embedder
RunGetEmbedder(w) ==
  /\ pc[w] = "re_get"
  /\ Goto(w, "key")
  /\ loc' = [Called(w, "get_embedder") EXCEPT
               ![w].op = "get", ![w].provider = loc[w].args.provider,
               ![w].model_id = loc[w].args.model_id,
               ![w].credential = loc[w].args.credential]
  /\ UNCHANGED <<now, cache, slots, clients, ret, history, snap, begun, last, world>>

\* line 82, get_embedder is over: its embedder is assigned, or its exception
\* is raised in the try block
RunGot(w) ==
  /\ pc[w] = "done"
  /\ loc[w].task = "run"
  /\ IF ret[w].kind = "raise"
     THEN RunRaise(w, loc, ret[w].exc)
     ELSE /\ Goto(w, "re_embed")
          /\ loc' = [loc EXCEPT ![w].embedder = ret[w].embedder]
  /\ ret' = [ret EXCEPT ![w] = NoResult]
  /\ UNCHANGED <<now, cache, slots, clients, history, snap, begun, last, world>>

\* the vector a provider returns for the i-th text, of dimension d
Vector(i, d) == [j \in 1 .. d |-> i]

\* line 86: vectors = embedder.embed_documents(chunks).  The provider
\* raises, or returns m vectors of one dimension (as many as the chunks
\* when it keeps its contract).
RunEmbed(w) ==
  /\ pc[w] = "re_embed"
  /\ LET l == [Called(w, "embed_documents") EXCEPT
                 ![w].embedded = Append(@, loc[w].chunks)]
     IN  \/ RunRaise(w, l, "ProviderError")
         \/ \E m \in 0 .. Len(loc[w].chunks), d \in Dimensions :
              /\ loc' = [l EXCEPT ![w].vectors = [i \in 1 .. m |-> Vector(i, d)]]
              /\ Goto(w, "re_vectors")
  /\ UNCHANGED <<now, cache, slots, clients, ret, history, snap, begun, last, world>>

\* lines 88-89: if not vectors: raise ValueError("No embeddings were
\* generated")
RunVectors(w) ==
  /\ pc[w] = "re_vectors"
  /\ IF loc[w].vectors = <<>>
     THEN RunRaise(w, loc, "ValueError")
     ELSE Goto(w, "re_save") /\ UNCHANGED loc
  /\ UNCHANGED <<now, cache, slots, clients, ret, history, snap, begun, last, world>>

\* a plausible bug: chunk_index counts from 1
PointStruct_FromOne(point_id, user_id, file_id, chunks, vectors, i) ==
  [ id |-> point_id, vector |-> vectors[i],
    payload |-> [ user_id |-> user_id, file_id |-> file_id,
                  chunk_index |-> i, text |-> chunks[i] ] ]

\* qdrant.py lines 64-78: the point of the i-th pair of zip(chunks, vectors),
\* whose idx is i - 1
PointStruct(point_id, user_id, file_id, chunks, vectors, i) ==
  [ id |-> point_id, vector |-> vectors[i],
    payload |-> [ user_id |-> user_id, file_id |-> file_id,
                  chunk_index |-> i - 1, text |-> chunks[i] ] ]

\* the number of points in a sequence of batches
RECURSIVE NPoints(_)
NPoints(batches) ==
  IF batches = <<>> THEN 0 ELSE Len(Head(batches)) + NPoints(Tail(batches))

\* a plausible bug: the id of a point is made of its chunk index
uuid4_ByIndex(batches, i) == i

\* qdrant.py line 65: str(uuid.uuid4()), an id that no point upserted so far
\* carries (the i-th id drawn for a batch)
uuid4(batches, i) == NPoints(batches) + i

\* a plausible bug: the upsert replaces the points of the collection
upsert_Replace(batches, batch) == <<batch>>

\* qdrant.py lines 81-84: client.upsert adds the points of the batch, whose
\* ids are new, to the points of the collection
upsert(batches, batch) == Append(batches, batch)

\* a plausible bug: the collection is created again for every batch
ensure_collection_exists_Always(size, vector_size, created) ==
  IF created THEN vector_size ELSE size

\* qdrant.py lines 22-34: the collection, of vector size `size` (0 while it
\* does not exist), after ensure_collection_exists(vector_size): it is
\* created when it is not listed, unless get_collections or
\* create_collection raised (created is FALSE), which is only printed
ensure_collection_exists(size, vector_size, created) ==
  IF size = 0 /\ created THEN vector_size ELSE size

\* a plausible bug: the lengths are not compared
LengthsDiffer_Unchecked(chunks, vectors) == FALSE

\* qdrant.py lines 55-56: if len(chunks) != len(vectors): raise ValueError
LengthsDiffer(chunks, vectors) == Len(chunks) # Len(vectors)

\* the number of pairs of zip(chunks, vectors)
ZipLen(chunks, vectors) ==
  IF Len(chunks) <= Len(vectors) THEN Len(chunks) ELSE Len(vectors)

\* lines 99-100: qdrant.save_embeddings(user_id, file_id or "chunks", chunks,
\* vectors).  qdrant.py lines 55-56 raise when the lengths differ; lines
\* 59-61 and 22-34 list the collections and create the collection when it is
\* not listed, swallowing every error of the vector index (a collection that
\* is not created stays absent, whichever call failed); lines 63-78 build
\* the points; lines 81-84 upsert them in one call.  The vector index refuses
\* an upsert into a collection that does not exist or has another vector
\* size, and may refuse any.
RunSave(w) ==
  /\ pc[w] = "re_save"
  /\ LET user_id == loc[w].args.user_id
         file_id == IF NotBlank(loc[w].args.file_id) THEN loc[w].args.file_id
                    ELSE "chunks"
         chunks == loc[w].chunks
         vectors == loc[w].vectors
         vector_size == Len(vectors[1])
         batch == [i \in 1 .. ZipLen(chunks, vectors) |->
                     PointStruct(uuid4(points, i), user_id, file_id, chunks, vectors, i)]
         listed == [Called(w, "get_collections") EXCEPT
                      ![w].steps = IF collection = 0
                                   THEN Append(@, "create_collection") ELSE @]
     IN  IF LengthsDiffer(chunks, vectors)
         THEN /\ RunRaise(w, loc, "ValueError")
              /\ UNCHANGED <<points, collection>>
         ELSE \E created \in BOOLEAN :
                /\ collection' = ensure_collection_exists(collection, vector_size, created)
                /\ \/ /\ RunRaise(w, [listed EXCEPT ![w].steps = Append(@, "upsert")],
                                  "UpsertError")
                      /\ UNCHANGED points
                   \/ /\ collection' = vector_size
                      /\ points' = upsert(points, batch)
                      /\ loc' = [listed EXCEPT
                                   ![w].steps = Append(@, "upsert"),
                                   ![w].save_result =
                                      [status |-> "success",
                                       points_processed |-> Len(batch)]]
                      /\ Goto(w, "re_record")
  /\ UNCHANGED <<now, cache, slots, clients, ret, history, snap, begun, last,
                 queue, backend, records, bridge>>

\* a plausible bug: the dimension is taken to be the number of vectors
vector_dimension_Count(vectors) == Len(vectors)

\* len(vectors[0]) if vectors else 0
vector_dimension(vectors) == IF vectors # <<>> THEN Len(vectors[1]) ELSE 0

\* lines 103-116: if file_id, the embedding record is inserted into the
\* record store, which may raise
RunRecord(w) ==
  /\ pc[w] = "re_record"
  /\ IF NotBlank(loc[w].args.file_id)
     THEN \E t \in now .. MaxTime :
            /\ Time(t)
            /\ LET embedding_data ==
                     [ file_id |-> loc[w].args.file_id,
                       user_id |-> loc[w].args.user_id,
                       provider |-> loc[w].args.provider,
                       model_id |-> loc[w].args.model_id,
                       chunks_count |-> Len(loc[w].chunks),
                       vector_dimension |-> vector_dimension(loc[w].vectors),
                       created_at |-> t,
                       qdrant_operation |-> loc[w].save_result ]
               IN  \/ /\ RunRaise(w, Called(w, "insert_one"), "StoreError")
                      /\ UNCHANGED records
                   \/ /\ records' = Append(records, embedding_data)
                      /\ loc' = [Called(w, "insert_one") EXCEPT
                                   ![w].embedding_record_id =
                                      ToString(Len(records) + 1)]
                      /\ Goto(w, "re_result")
     ELSE /\ Goto(w, "re_result")
          /\ UNCHANGED <<now, loc, records>>
  /\ UNCHANGED <<cache, slots, clients, ret, history, snap, begun, last,
                 queue, backend, points, collection, bridge>>

\* lines 118-141: the success result is built and returned; the transport
\* stores it as the task's result
RunResult(w) ==
  /\ pc[w] = "re_result"
  /\ \E t \in now .. MaxTime :
       /\ Time(t)
       /\ LET result ==
                [ status |-> "success",
                  file_id |-> loc[w].args.file_id,
                  user_id |-> loc[w].args.user_id,
                  chunks_processed |-> Len(loc[w].chunks),
                  vectors_created |-> Len(loc[w].vectors),
                  vector_dimension |-> vector_dimension(loc[w].vectors),
                  provider |-> loc[w].args.provider,
                  model_id |-> loc[w].args.model_id,
                  processing_time_seconds |-> t - loc[w].start_time,
                  qdrant_operation |-> loc[w].save_result,
                  embedding_record_id |-> loc[w].embedding_record_id ]
          IN  /\ ret' = [ret EXCEPT ![w] = ReturnedResult(result)]
              /\ backend' = [backend EXCEPT !.state = "SUCCESS", !.result = result]
  /\ Goto(w, "ran")
  /\ UNCHANGED <<cache, slots, clients, loc, history, snap, begun, last,
                 queue, points, records, collection, bridge>>

\* a plausible bug: the retry is sent with the chunks the attempt resolved
RetryArgs_Resolved(w) == [loc[w].args EXCEPT !.chunks = loc[w].chunks]

\* Task.retry without args or kwargs: the signature of the retry is made
\* from the request, that is from the arguments the message carried
RetryArgs(w) == loc[w].args

\* lines 143-163: except Exception as e: the error result is logged and
\* self.retry(countdown=60, max_retries=3, exc=e) is called.  Task.retry
\* raises e when request.retries + 1 exceeds max_retries (the task fails);
\* otherwise it sends the task again, with retries + 1 and the countdown,
\* and raises Retry.
RunExcept(w) ==
  /\ pc[w] = "re_except"
  /\ \E t \in now .. MaxTime : Time(t)
  /\ IF loc[w].retries + 1 > MAX_RETRIES
     THEN /\ ret' = [ret EXCEPT ![w] = Raised(loc[w].exc)]
          /\ backend' = [backend EXCEPT !.state = "FAILURE",
                                        !.errors = @ \cup {loc[w].exc}]
          /\ UNCHANGED queue
     ELSE /\ ret' = [ret EXCEPT ![w] = Raised("Retry")]
          /\ queue' = Append(queue, Message(RetryArgs(w), loc[w].retries + 1,
                                            RETRY_COUNTDOWN))
          /\ backend' = [backend EXCEPT !.state = "RETRY",
                                        !.errors = @ \cup {loc[w].exc}]
  /\ Goto(w, "ran")
  /\ UNCHANGED <<cache, slots, clients, loc, history, snap, begun, last,
                 points, records, collection, bridge>>

\* the execution is over and the worker is free again
RunDone(w) ==
  /\ pc[w] = "ran"
  /\ Goto(w, "idle")
  /\ loc' = [loc EXCEPT ![w] = NoLocals]
  /\ ret' = [ret EXCEPT ![w] = NoResult]
  /\ snap' = [snap EXCEPT ![w] = EmptyCache]
  /\ UNCHANGED <<now, cache, slots, clients, history, begun, last, world>>

(***************************************************************************)
(* The secondary tasks (embedding.py lines 241-466): search_similar,       *)
(* delete_file_embeddings, delete_model, cleanup_old_models and            *)
(* get_cache_info.  The body of each is one try block; its except clause   *)
(* catches Exception and returns an error result.                          *)
(***************************************************************************)
\* the types of the exceptions the cache, the provider and the vector index
\* raise; every one is a subclass of Exception
Exception ==
  {"AttributeError", "KeyError", "RuntimeError", "ValueError",
   "NotImplementedError", "ConstructorError", "ProviderError",
   "UnexpectedResponse"}

\* a plausible bug: the except clause names the errors of the cache only
Catches_CacheErrors(exc) == exc \in {"KeyError", "RuntimeError"}

\* lines 300, 344, 386, 427, 455: except Exception as e
Catches(exc) == exc \in Exception

\* line 249: limit: int = 5
DEFAULT_LIMIT == 5

\* the arguments of the search_similar tasks
SearchArgs ==
  [ query_text : {"q"}, provider : {"openai"}, model_id : ModelIds,
    credential : {NoneCredential, Dict(Missing, Missing)},
    user_id : UserIds, file_id : FileIds,
    limit : {DEFAULT_LIMIT} ]

\* qdrant.py lines 111-115: the filter made of the ids that are given
Selected(point, user_id, file_id) ==
  /\ NotBlank(user_id) => point.payload.user_id = user_id
  /\ NotBlank(file_id) => point.payload.file_id = file_id

\* the points of a sequence of batches that the filter selects
RECURSIVE Hits(_, _, _)
Hits(batches, user_id, file_id) ==
  IF batches = <<>> THEN <<>>
  ELSE SelectSeq(Head(batches), LAMBDA p : Selected(p, user_id, file_id))
         \o Hits(Tail(batches), user_id, file_id)

\* qdrant.py lines 136-144: the batches without the points of the file
RECURSIVE Without(_, _, _)
Without(batches, user_id, file_id) ==
  IF batches = <<>> THEN <<>>
  ELSE <<SelectSeq(Head(batches),
                   LAMBDA p : ~ (p.payload.user_id = user_id /\ p.payload.file_id = file_id))>>
         \o Without(Tail(batches), user_id, file_id)

\* the try block of a secondary task ends: it reached its return statement
\* with result, or an exception left it
SecEnd(w, r) ==
  /\ pc' = [pc EXCEPT ![w] = "sec_done"]
  /\ ret' = [ret EXCEPT ![w] = r]

\* a caller submits a search_similar task and a worker begins it
SubmitSearch(w, args) ==
  /\ pc[w] = "idle"
  /\ Goto(w, "ss_get")
  /\ loc' = [loc EXCEPT ![w] = [NoLocals EXCEPT !.task = "search", !.args = args]]
  /\ ret' = [ret EXCEPT ![w] = NoResult]
  /\ UNCHANGED <<now, cache, slots, clients, history, last, world>>

\* a plausible bug: the search constructs a client of its own and stores it,
\* whatever the cache holds
SearchGetEmbedder_OwnClient(w) ==
  /\ pc[w] = "ss_get"
  /\ Goto(w, IF loc[w].args.credential.none THEN "key" ELSE "create")
  /\ loc' = [Called(w, "get_embedder") EXCEPT
               ![w].op = "get", ![w].provider = loc[w].args.provider,
               ![w].model_id = loc[w].args.model_id,
               ![w].credential = loc[w].args.credential,
               ![w].cache_key =
                  IF loc[w].args.credential.none THEN @
                  ELSE create_cache_key(loc[w].args.model_id, loc[w].args.provider,
                                        loc[w].args.credential)]
  /\ UNCHANGED <<now, cache, slots, clients, ret, history, snap, begun, last, world>>

\* line 278: embedder = EmbedderRegistry.get_embedder(provider, model_id,
\* credential); the call runs the steps of get_embedder
SearchGetEmbedder(w) ==
  /\ pc[w] = "ss_get"
  /\ Goto(w, "key")
  /\ loc' = [Called(w, "get_embedder") EXCEPT
               ![w].op = "get", ![w].provider = loc[w].args.provider,
               ![w].model_id = loc[w].args.model_id,
               ![w].credential = loc[w].args.credential]
  /\ UNCHANGED <<now, cache, slots, clients, ret, history, snap, begun, last, world>>

\* line 278, get_embedder is over: its embedder is assigned, or its
\* exception leaves the try block
SearchGot(w) ==
  /\ pc[w] = "done"
  /\ loc[w].task = "search"
  /\ IF ret[w].kind = "raise"
     THEN /\ SecEnd(w, Raised(ret[w].exc))
          /\ UNCHANGED loc
     ELSE /\ Goto(w, "ss_embed")
          /\ loc' = [loc EXCEPT ![w].embedder = ret[w].embedder]
          /\ ret' = [ret EXCEPT ![w] = NoResult]
  /\ UNCHANGED <<now, cache, slots, clients, history, snap, begun, last, world>>

\* line 279: query_vector = embedder.embed_query(query_text); the provider
\* raises or returns a vector (the index of the model does not read it)
SearchEmbed(w) ==
  /\ pc[w] = "ss_embed"
  /\ \/ /\ SecEnd(w, Raised("ProviderError"))
        /\ loc' = Called(w, "embed_query")
     \/ /\ loc' = [Called(w, "embed_query") EXCEPT ![w].vectors = <<Vector(1, 1)>>]
        /\ Goto(w, "ss_search")
        /\ UNCHANGED ret
  /\ UNCHANGED <<now, cache, slots, clients, history, snap, begun, last, world>>

\* lines 282-298: QdrantService().search_similar(query_vector, user_id,
\* file_id, limit); the index raises, or returns at most limit of the points
\* its filter selects, and the task reaches return result
SearchQuery(w) ==
  /\ pc[w] = "ss_search"
  /\ loc' = Called(w, "search")
  /\ \/ SecEnd(w, Raised("UnexpectedResponse"))
     \/ LET found == Hits(points, loc[w].args.user_id, loc[w].args.file_id)
            search_results == SubSeq(found, 1, Min({Len(found), loc[w].args.limit}))
        IN  SecEnd(w, ReturnedResult([status |-> "success",
                                      query_text |-> loc[w].args.query_text,
                                      results_count |-> Len(search_results),
                                      results |-> search_results]))
  /\ UNCHANGED <<now, cache, slots, clients, history, snap, begun, last, world>>

\* a caller submits a delete_file_embeddings task and a worker begins it
SubmitDeleteFile(w, user_id, file_id) ==
  /\ pc[w] = "idle"
  /\ Goto(w, "df_delete")
  /\ loc' = [loc EXCEPT ![w] = [NoLocals EXCEPT !.task = "delete_file",
                                   !.args = [user_id |-> user_id, file_id |-> file_id]]]
  /\ ret' = [ret EXCEPT ![w] = NoResult]
  /\ UNCHANGED <<now, cache, slots, clients, history, last, world>>

\* lines 331-342: QdrantService().delete_by_file(user_id, file_id); the
\* index raises, or deletes the points of the file, and the task reaches
\* return result
DeleteFile(w) ==
  /\ pc[w] = "df_delete"
  /\ loc' = Called(w, "delete")
  /\ \/ /\ SecEnd(w, Raised("UnexpectedResponse"))
        /\ UNCHANGED points
     \/ /\ points' = Without(points, loc[w].args.user_id, loc[w].args.file_id)
        /\ SecEnd(w, ReturnedResult([status |-> "success",
                                     user_id |-> loc[w].args.user_id,
                                     file_id |-> loc[w].args.file_id,
                                     qdrant_operation |-> [status |-> "success"]]))
  /\ UNCHANGED <<now, cache, slots, clients, history, snap, begun, last,
                 queue, backend, records, collection, bridge>>

\* the try block of the task of worker w is over
SecOver(w) ==
  \/ pc[w] = "sec_done"
  \/ pc[w] = "done" /\ loc[w].task = "none"

\* what the task of worker w returns: the result its try block made, or the
\* error result of its except clause
SecResult(w) ==
  IF ret[w].kind = "raise"
  THEN [status |-> "error", error_type |-> ret[w].exc]
  ELSE IF loc[w].task = "none" THEN TaskResult(w) ELSE ret[w].result

\* the secondary task of worker w is over: the transport stores what it
\* returned, or its failure when an exception left it, and the worker is
\* free again
SecReturn(w) ==
  /\ SecOver(w)
  /\ backend' = IF ret[w].kind = "raise" /\ ~ Catches(ret[w].exc)
                THEN [NoBackend EXCEPT !.state = "FAILURE", !.errors = {ret[w].exc}]
                ELSE [NoBackend EXCEPT !.state = "SUCCESS", !.result = SecResult(w)]
  /\ Goto(w, "idle")
  /\ loc' = [loc EXCEPT ![w] = NoLocals]
  /\ ret' = [ret EXCEPT ![w] = NoResult]
  /\ snap' = [snap EXCEPT ![w] = EmptyCache]
  /\ last' = [NoTask EXCEPT !.op = IF loc[w].task = "none" THEN loc[w].op ELSE loc[w].task]
  /\ UNCHANGED <<now, cache, slots, clients, history, begun, queue, points,
                 records, collection, bridge>>

(***************************************************************************)
(* Specifications.                                                         *)
(***************************************************************************)
Step(w) ==
  \/ GetKey(w) \/ GetCheck(w) \/ GetCreate(w) \/ GetStampCreated(w)
  \/ GetStampLast(w) \/ GetInsert(w) \/ GetTouchTime(w) \/ GetTouch(w)
  \/ GetReadCount(w) \/ GetWriteCount(w) \/ GetReturn(w)
  \/ DelCheck(w) \/ DelLoad(w) \/ DelDel(w)
  \/ CleanupTime(w) \/ CleanupIter(w) \/ CleanupNext(w) \/ CleanupDelete(w)
  \/ InfoLen(w) \/ InfoIter(w) \/ InfoNext(w)
  \/ TaskDone(w)

\* a worker takes a task, within the model's bound on the tasks begun
Take == begun < MaxTasks /\ begun' = begun + 1

\* no task is running, and w is the first of the free workers
Turn(w) == \A v \in Workers \ {w} : pc[v] = "idle" /\ v > w

\* a task begins when no other task is running; the cache is noted as it is
Alone(w) == Turn(w) /\ Take /\ snap' = [snap EXCEPT ![w] = cache]

\* a task begins whatever the other workers do
Among(w) == Take /\ UNCHANGED snap

\* sequential histories
Next ==
  \/ \E w \in Workers, call \in GetEmbedderCalls :
       Alone(w) /\ CallGetEmbedder(w, call[1], call[2], call[3])
  \/ \E w \in Workers, model_id \in DeleteArgs :
       Alone(w) /\ CallDeleteModel(w, model_id)
  \/ \E w \in Workers, max_age_seconds \in MaxAges :
       Alone(w) /\ CallCleanup(w, max_age_seconds)
  \/ \E w \in Workers : Alone(w) /\ CallCacheInfo(w)
  \/ \E w \in Workers : Step(w)

Spec == Init /\ [][Next]_vars

\* the tasks of the workers interleave
NextConc ==
  \/ \E w \in Workers, call \in ConcurrentCalls :
       Among(w) /\ CallGetEmbedder(w, call[1], call[2], call[3])
  \/ \E w \in Workers, model_id \in ConcurrentDeleteArgs :
       Among(w) /\ CallDeleteModel(w, model_id)
  \/ \E w \in Workers, max_age_seconds \in MaxAges :
       Among(w) /\ CallCleanup(w, max_age_seconds)
  \/ \E w \in Workers : Among(w) /\ CallCacheInfo(w)
  \/ \E w \in Workers : Step(w)

SpecConc == Init /\ [][NextConc]_vars

\* the steps of get_embedder
GetStep(w) ==
  \/ GetKey(w) \/ GetCheck(w) \/ GetCreate(w) \/ GetStampCreated(w)
  \/ GetStampLast(w) \/ GetInsert(w) \/ GetTouchTime(w) \/ GetTouch(w)
  \/ GetReadCount(w) \/ GetWriteCount(w) \/ GetReturn(w)

\* the steps of run_async_in_thread and of the helper it runs
BridgeStep(w) ==
  \/ BridgeSubmit(w) \/ BridgeLoop(w)
  \/ PipeLookup(w) \/ PipeType(w) \/ PipeDownload(w) \/ PipeProcess(w)
  \/ PipeExtract(w)
  \/ BridgeClose(w) \/ BridgeJoin(w)

\* the steps of run_embedding
RunStep(w) ==
  \/ RunStart(w) \/ RunResolve(w) \/ BridgeStep(w) \/ BridgeReturn(w)
  \/ RunCheck(w) \/ RunGetEmbedder(w)
  \/ GetStep(w) \/ RunGot(w)
  \/ RunEmbed(w) \/ RunVectors(w) \/ RunSave(w) \/ RunRecord(w)
  \/ RunResult(w) \/ RunExcept(w) \/ RunDone(w)

\* the run_embedding task is submitted
TakeRun(w) == Turn(w) /\ begun = 0 /\ begun' = begun + 1

\* one run_embedding task, from its submission to the end of its last
\* execution
NextRun ==
  \/ \E w \in Workers, args \in RunArgs : TakeRun(w) /\ SubmitRun(w, args)
  \/ \E w \in Workers : Turn(w) /\ Redeliver(w)
  \/ \E w \in Workers : RunStep(w)

SpecRun == Init /\ [][NextRun]_vars

\* the steps of the secondary tasks
SecStep(w) ==
  \/ SearchGetEmbedder(w) \/ GetStep(w) \/ SearchGot(w) \/ SearchEmbed(w)
  \/ SearchQuery(w) \/ DeleteFile(w)
  \/ DelCheck(w) \/ DelLoad(w) \/ DelDel(w)
  \/ CleanupTime(w) \/ CleanupIter(w) \/ CleanupNext(w) \/ CleanupDelete(w)
  \/ InfoLen(w) \/ InfoIter(w) \/ InfoNext(w)
  \/ SecReturn(w)

\* a secondary task begins whatever the other worker does
TakeSec == begun < MaxSecondary /\ begun' = begun + 1 /\ UNCHANGED snap

\* the secondary tasks of the workers interleave
NextSec ==
  \/ \E w \in Workers, args \in SearchArgs : TakeSec /\ SubmitSearch(w, args)
  \/ \E w \in Workers, user_id \in UserIds, file_id \in FileIds :
       TakeSec /\ SubmitDeleteFile(w, user_id, file_id)
  \/ \E w \in Workers, model_id \in ConcurrentDeleteArgs :
       TakeSec /\ CallDeleteModel(w, model_id)
  \/ \E w \in Workers, max_age_seconds \in MaxAges :
       TakeSec /\ CallCleanup(w, max_age_seconds)
  \/ \E w \in Workers : TakeSec /\ CallCacheInfo(w)
  \/ \E w \in Workers : SecStep(w)

SpecSec == Init /\ [][NextSec]_vars

\* the arguments of the executions that run the chunk pipeline: a file_id
\* and no chunks
FileArgs ==
  {args \in RunArgs :
     args.file_id # None /\ args.chunks = NoList /\ ~ args.credential.none}

\* a worker begins an execution of run_embedding
BeginRun(w, args) ==
  /\ Execute(w, Message(args, 0, 0))
  /\ begun' = begun + 1
  /\ UNCHANGED <<now, cache, slots, clients, history, last, world>>

\* the executions of the workers overlap; each is followed from its
\* beginning to the return of run_async_in_thread at line 76
NextBridge ==
  \/ \E w \in Workers, args \in FileArgs : BeginRun(w, args)
  \/ \E w \in Workers : RunStart(w)
  \/ \E w \in Workers : RunResolve(w)
  \/ \E w \in Workers : BridgeStep(w)
  \/ \E w \in Workers : BridgeReturn(w)

SpecBridge == Init /\ [][NextBridge]_vars

(***************************************************************************)
(* Properties.                                                             *)
(***************************************************************************)
\* no call is in the middle of its steps
AllQuiet == \A w \in Workers : pc[w] \in {"idle", "done"}

\* no entry was ever removed from the cache
NoRemoval == \A i \in DOMAIN slots : slots[i] # Tombstone

\* get_embedder of worker w is over and returned an embedder
GotEmbedder(w) == pc[w] = "done" /\ loc[w].op = "get" /\ ret[w].kind = "return"

\* C1: in a sequential history, the calls of get_embedder with one key that
\* no removal of the key separates return one and the same instance, the one
\* the cache holds, and that instance is the only one constructed for the key.
C1_SameInstance ==
  \A k \in DOMAIN cache :
    /\ built[k] = {cache[k].embedder}
    /\ handed[k] \subseteq {cache[k].embedder}

\* two calls with one key returned, and returned the same instance
C1_Witness ==
  \E k \in DOMAIN cache : nret[k] >= 2 /\ handed[k] = {cache[k].embedder}

\* C2: when the workers call get_embedder concurrently and nothing is ever
\* removed, one client is constructed per key and every caller is handed the
\* client the cache holds under the key.
C2_Linearizable ==
  NoRemoval =>
    \A k \in CacheKeys :
      /\ Cardinality(built[k]) <= 1
      /\ k \in DOMAIN cache => handed[k] \subseteq {cache[k].embedder}

\* the insertion of an entry leaves use_count = 0 whatever was there, an entry
\* that stays keeps created_at, never sees last_used decrease, and use_count
\* grows by one or not at all
C3_Step ==
  \A k \in DOMAIN cache' :
    IF k \in DOMAIN cache /\ cache[k].embedder = cache'[k].embedder
    THEN /\ cache'[k].created_at = cache[k].created_at
         /\ cache'[k].last_used >= cache[k].last_used
         /\ cache'[k].use_count \in {cache[k].use_count, cache[k].use_count + 1}
    ELSE cache'[k].use_count = 0

\* between calls, an entry counts the calls that returned it but the first
C3_State ==
  \A k \in DOMAIN cache :
    /\ cache[k].created_at <= cache[k].last_used
    /\ AllQuiet => cache[k].use_count = nret[k] - 1

\* C3: usage accounting in a sequential history: the inserting call leaves
\* use_count = 0 and created_at <= last_used, every later hit adds exactly 1
\* to use_count and never decreases last_used, created_at never changes, and
\* after k calls with no removal use_count = k - 1.
C3_UsageAccounting == [][C3_Step /\ C3_State']_vars

\* three calls on one key returned and its entry counts two uses, with a
\* last_used after its created_at
C3_Witness ==
  \E k \in DOMAIN cache :
    /\ AllQuiet /\ nret[k] = 3 /\ cache[k].use_count = 2
    /\ cache[k].created_at < cache[k].last_used

\* C4: concurrent hits on a cached key that is never removed lose no
\* increment: once the calls are over, use_count counts every call that
\* returned the entry but the one that inserted it.
C4_AtomicTouch ==
  (AllQuiet /\ NoRemoval) =>
    \A k \in DOMAIN cache :
      Cardinality(built[k]) = 1 => cache[k].use_count = nret[k] - 1

\* what get_embedder raises for a provider that has no client
NoClientError(provider) ==
  IF provider = "google" THEN "NotImplementedError" ELSE "ValueError"

\* C5: a get_embedder call that fails to construct its client raises
\* (NotImplementedError for google, ValueError for an unknown provider, the
\* constructor's error otherwise) and leaves the cache as the call found it,
\* with no entry under its key.
C5_FailedConstruction ==
  \A w \in Workers :
    (pc[w] = "done" /\ loc[w].op = "get" /\ ~ loc[w].credential.none) =>
      /\ loc[w].provider \notin {"openai", "huggingface"} =>
           ret[w] = Raised(NoClientError(loc[w].provider))
      /\ ret[w].kind = "raise" =>
           /\ ret[w].exc \in {"ValueError", "NotImplementedError", "ConstructorError"}
           /\ cache = snap[w]
           /\ loc[w].cache_key \notin DOMAIN cache

\* a constructor raised while another entry was in the cache
C5_Witness ==
  \E w \in Workers :
    /\ pc[w] = "done" /\ loc[w].op = "get" /\ ret[w].kind = "raise"
    /\ ret[w].exc = "ConstructorError"
    /\ cache # EmptyCache

\* C6: get_embedder never returns to a caller a client that was constructed
\* with an API key other than the caller's.
C6_OwnClient ==
  \A w \in Workers :
    GotEmbedder(w) => clients[ret[w].embedder].api_key = loc[w].credential.api_key

\* a credential that carries neither an api_key nor a base_url, or no
\* credential at all
Absent(credential) ==
  credential.none \/ (credential.api_key = Missing /\ credential.base_url = Missing)

\* C7: once get_embedder has derived its key, the key of a call with an
\* absent credential is the sentinel key of its (provider, model_id).
C7_SentinelKey ==
  \A w \in Workers :
    (loc[w].op = "get" /\ pc[w] \notin {"idle", "key"} /\ Absent(loc[w].credential)) =>
      loc[w].cache_key = loc[w].provider \o ":" \o loc[w].model_id \o ":no_key:no_url"

\* C8: delete_embedder(key) returns without raising, returns True exactly
\* when the key was cached, and leaves the cache as it was but for that key.
C8_Delete ==
  \A w \in Workers :
    (pc[w] = "done" /\ loc[w].op = "delete") =>
      /\ ret[w] = ReturnedBool(loc[w].model_id \in DOMAIN snap[w])
      /\ DOMAIN cache = DOMAIN snap[w] \ {loc[w].model_id}
      /\ \A k \in DOMAIN cache : cache[k] = snap[w][k]

\* a delete returned True and left another entry in the cache
C8_Witness ==
  \E w \in Workers :
    /\ pc[w] = "done" /\ loc[w].op = "delete"
    /\ ret[w].deleted
    /\ cache # EmptyCache

\* C9: the delete_model task called with the model_id of a cached model
\* reports deleted = True and leaves no entry of that model in the cache.
C9_DeleteByModelId ==
  \A w \in Workers :
    ( /\ pc[w] = "done" /\ loc[w].op = "delete"
      /\ \E k \in DOMAIN snap[w] : snap[w][k].model_id = loc[w].model_id ) =>
      /\ TaskResult(w).deleted
      /\ \A k \in DOMAIN cache : cache[k].model_id # loc[w].model_id

\* the entries of cache c that a sweep at current_time keeps
Kept(c, current_time, max_age_seconds) ==
  { k \in DOMAIN c : current_time - c[k].last_used <= max_age_seconds }

\* C10: with no concurrent activity, cleanup_old_embedders(max_age) removes
\* the entries idle for more than max_age at the time read when the sweep
\* began, keeps the others unchanged, and returns the number it removed.
C10_Sweep ==
  \A w \in Workers :
    (pc[w] = "done" /\ loc[w].op = "cleanup") =>
      LET kept == Kept(snap[w], loc[w].current_time, loc[w].max_age_seconds)
      IN  /\ DOMAIN cache = kept
          /\ \A k \in kept : cache[k] = snap[w][k]
          /\ ret[w] = ReturnedCount(Cardinality(DOMAIN snap[w] \ kept))

\* a sweep removed an entry and kept one that was idle for exactly max_age
C10_Witness ==
  \E w \in Workers :
    /\ pc[w] = "done" /\ loc[w].op = "cleanup"
    /\ ret[w].count >= 1
    /\ \E k \in DOMAIN cache :
         loc[w].current_time - cache[k].last_used = loc[w].max_age_seconds

\* a sweep is over that ran right after a sweep with the same max_age
SecondSweep(w) ==
  /\ pc[w] = "done" /\ loc[w].op = "cleanup"
  /\ last.op = "cleanup" /\ last.max_age_seconds = loc[w].max_age_seconds

\* C11 as stated: the second of two sweeps in a row with one max_age and no
\* cache activity in between returns 0 and leaves the cache unchanged.
C11_SecondSweepIdle ==
  \A w \in Workers :
    SecondSweep(w) => ret[w] = ReturnedCount(0) /\ cache = snap[w]

\* C11: the second of two sweeps in a row with one max_age returns 0 and
\* leaves the cache unchanged when no entry the first one kept has been idle
\* for more than max_age at the time the second one reads.
C11_SecondSweep ==
  \A w \in Workers :
    ( /\ SecondSweep(w)
      /\ \A k \in DOMAIN snap[w] :
           loc[w].current_time - snap[w][k].last_used <= loc[w].max_age_seconds ) =>
      ret[w] = ReturnedCount(0) /\ cache = snap[w]

\* a second sweep read a later time than the first and found an entry that
\* was still within max_age
C11_Witness ==
  \E w \in Workers :
    /\ SecondSweep(w) /\ ret[w] = ReturnedCount(0)
    /\ loc[w].current_time > last.current_time
    /\ cache # EmptyCache /\ cache = snap[w]

\* C12: a sweep that runs concurrently with get_embedder calls, and with
\* nothing else that removes entries, ends by returning a count: its scan
\* raises no error when keys are inserted or touched underneath it.
C12_SweepSafe ==
  \A w \in Workers :
    (pc[w] = "done" /\ loc[w].op = "cleanup" /\ NoRemoval) =>
      ret[w].kind = "return"

\* sweep w is about to delete an entry that was created after the sweep read
\* its time, hence inserted after its scan began
DeletesNewer(w) ==
  /\ pc[w] = "del_del" /\ loc[w].caller = "cleanup"
  /\ loc[w].del_key \in DOMAIN cache
  /\ cache[loc[w].del_key].created_at > loc[w].current_time

\* C13: a sweep never removes an entry that was inserted after its scan
\* began, whether under a new key or under a key the scan had marked.
C13_ScanSnapshot ==
  [][ \A w \in Workers :
        (DeletesNewer(w) /\ pc'[w] # pc[w]) => loc[w].del_key \in DOMAIN cache' ]_vars

\* sweep w is about to delete an entry that has been used less than
\* max_age_seconds before the latest reading of the clock
DeletesFresh(w) ==
  /\ pc[w] = "del_del" /\ loc[w].caller = "cleanup"
  /\ loc[w].del_key \in DOMAIN cache
  /\ now - cache[loc[w].del_key].last_used < loc[w].max_age_seconds

\* C14: a sweep removes no entry whose idle time is within max_age when it
\* is removed: an entry that a hit refreshed after the scan read it survives.
C14_FreshSurvives ==
  [][ \A w \in Workers :
        (DeletesFresh(w) /\ pc'[w] # pc[w]) => loc[w].del_key \in DOMAIN cache' ]_vars

\* get_cache_info of worker w is over
InfoDone(w) == pc[w] = "done" /\ loc[w].op = "info"

\* C15: with no concurrent activity, get_cache_info returns the metadata of
\* every entry present when it is called: total_cached_embedders is the
\* number of listings, a listing carries the entry's metadata and an
\* age_seconds counted from created_at to a time read during the call, no
\* listing holds the client instance, and the cache is left as it was.
C15_CacheInfo ==
  \A w \in Workers :
    InfoDone(w) =>
      LET info == ret[w].cache_info
      IN  /\ ret[w].kind = "return"
          /\ cache = snap[w]
          /\ DOMAIN info.embedders = DOMAIN cache
          /\ info.total_cached_embedders = Cardinality(DOMAIN info.embedders)
          /\ \A k \in DOMAIN info.embedders :
               LET listing == info.embedders[k]
               IN  /\ "embedder" \notin DOMAIN listing
                   /\ \A f \in DOMAIN listing \ {"age_seconds"} :
                        listing[f] = cache[k][f]
                   /\ listing.created_at + listing.age_seconds \in
                        cache[k].last_used .. now

\* get_cache_info listed two entries, one of them used after its creation
\* and older than zero
C15_Witness ==
  \E w \in Workers :
    /\ InfoDone(w)
    /\ ret[w].cache_info.total_cached_embedders = 2
    /\ \E k \in DOMAIN ret[w].cache_info.embedders :
         /\ ret[w].cache_info.embedders[k].age_seconds > 0
         /\ cache[k].created_at < cache[k].last_used

\* the number of times call occurs in steps
Count(steps, call) == Cardinality({ i \in DOMAIN steps : steps[i] = call })

\* an execution of run_embedding by worker w is over
Ran(w) == pc[w] = "ran" /\ loc[w].task = "run"

\* the execution of worker w was given n >= 1 chunks, its provider returned
\* n vectors and no store refused a write
GivenVectors(w) ==
  /\ Ran(w)
  /\ NotEmpty(loc[w].args.chunks)
  /\ Len(loc[w].vectors) = Len(loc[w].args.chunks)
  /\ loc[w].exc \notin {"UpsertError", "StoreError"}

\* C16: run_embedding with n >= 1 supplied chunks and a provider that
\* returns n vectors of dimension d returns a success result with
\* chunks_processed = n, vectors_created = n and vector_dimension = d, after
\* one embed_documents call over the whole chunk list and one upsert of n
\* points, point i carrying chunk i, vector i and chunk_index i, from 0 on.
C16_Success ==
  \A w \in Workers :
    GivenVectors(w) =>
      LET chunks == loc[w].args.chunks
          n == Len(chunks)
          result == ret[w].result
          batch == points[Len(points)]
      IN  /\ ret[w].kind = "return"
          /\ result.status = "success"
          /\ result.chunks_processed = n
          /\ result.vectors_created = n
          /\ result.vector_dimension = Len(loc[w].vectors[1])
          /\ loc[w].embedded = <<chunks>>
          /\ Count(loc[w].steps, "embed_documents") = 1
          /\ Count(loc[w].steps, "upsert") = 1
          /\ Len(batch) = n
          /\ \A i \in 1 .. n :
               /\ batch[i].payload.text = chunks[i]
               /\ batch[i].vector = loc[w].vectors[i]
               /\ batch[i].payload.chunk_index = i - 1

\* two chunks were embedded into two vectors of dimension 2 and upserted
C16_Witness ==
  \E w \in Workers :
    /\ GivenVectors(w)
    /\ ret[w].result.chunks_processed = 2
    /\ ret[w].result.vector_dimension = 2
    /\ Len(points[Len(points)]) = 2

\* the calls of the chunk pipeline
FileCalls ==
  {"get_file_by_id", "is_supported_file_type", "download_file_by_url",
   "download_file_by_path", "create_temp_file", "load_documents",
   "cleanup_temp_file"}

\* the step of the state machine to which a call belongs: 1 RESOLVING_INPUT,
\* 2 EMBEDDING, 3 PERSISTING_VECTORS, 4 PERSISTING_RECORD
StepOf(call) ==
  CASE call \in FileCalls -> 1
    [] call \in {"get_embedder", "embed_documents"} -> 2
    [] call \in {"get_collections", "create_collection", "upsert"} -> 3
    [] call = "insert_one" -> 4

\* the calls of the attempt of worker w were made in the order of the steps,
\* each after the step before it succeeded
InOrder(w) ==
  LET steps == loc[w].steps
  IN  /\ \A i, j \in DOMAIN steps : i < j => StepOf(steps[i]) <= StepOf(steps[j])
      /\ \A call \in {"embed_documents", "upsert", "insert_one"} :
           Count(steps, call) <= 1
      /\ Count(steps, "get_embedder") >= 1 => NotEmpty(loc[w].chunks)
      /\ Count(steps, "upsert") = 1 =>
           /\ Count(steps, "embed_documents") = 1
           /\ loc[w].vectors # <<>>
      /\ Count(steps, "insert_one") = 1 =>
           /\ Count(steps, "upsert") = 1
           /\ loc[w].save_result.status = "success"

\* a success result is returned only after every step that applies succeeded
DoneAfterAll(w) ==
  (Ran(w) /\ ret[w].kind = "return") =>
    /\ loc[w].exc = ""
    /\ NotEmpty(loc[w].chunks)
    /\ Count(loc[w].steps, "embed_documents") = 1
    /\ loc[w].save_result.status = "success"
    /\ NotBlank(loc[w].args.file_id) <=>
         (Count(loc[w].steps, "insert_one") = 1 /\ loc[w].embedding_record_id # None)

\* an attempt that failed makes no further call and returns no result
FailedEnds(w) ==
  (pc[w] = "re_except" /\ pc'[w] # "re_except") =>
    /\ pc'[w] = "ran"
    /\ ret'[w].kind = "raise"
    /\ loc'[w].steps = loc[w].steps
    /\ points' = points /\ records' = records /\ cache' = cache

\* C17: within one attempt of run_embedding the steps happen only in the
\* order RESOLVING_INPUT, EMBEDDING, PERSISTING_VECTORS, PERSISTING_RECORD,
\* DONE, each after the one before it succeeded, and a failure at any step
\* ends the attempt with no later step executed.
C17_StepOrder ==
  [][ \A w \in Workers : InOrder(w)' /\ DoneAfterAll(w)' /\ FailedEnds(w) ]_vars

\* an attempt on a file went through every step and returned its result
C17_Witness ==
  \E w \in Workers :
    /\ Ran(w) /\ ret[w].kind = "return"
    /\ loc[w].steps = <<"get_file_by_id", "is_supported_file_type",
                        "download_file_by_path", "create_temp_file",
                        "load_documents", "cleanup_temp_file", "get_embedder",
                        "embed_documents", "get_collections", "create_collection",
                        "upsert", "insert_one">>

\* run_embedding was called with no chunks and no file_id
NoInput(w) ==
  /\ loc[w].task = "run"
  /\ loc[w].args.chunks \in {NoList, <<>>}
  /\ loc[w].args.file_id = None

\* C18: run_embedding with empty or absent chunks and no file_id fails with
\* the missing-input error (ValueError) and calls neither the provider, nor
\* the provider cache, nor the blob store, the record store or the vector
\* index.
C18_MissingInput ==
  \A w \in Workers :
    NoInput(w) =>
      /\ loc[w].steps = <<>> /\ loc[w].embedded = <<>>
      /\ cache = snap[w] /\ clients = <<>>
      /\ points = <<>> /\ records = <<>>
      /\ Ran(w) =>
           /\ loc[w].exc = "ValueError"
           /\ ret[w].kind = "raise"
           /\ backend.errors = {"ValueError"}

\* the task with an empty list of chunks and no file_id failed for good
C18_Witness ==
  \E w \in Workers :
    /\ NoInput(w) /\ Ran(w)
    /\ loc[w].args.chunks = <<>>
    /\ backend.state = "FAILURE"

\* C19: a run_embedding task whose provider always raises is executed 3
\* times in all and then fails for good; every re-execution is scheduled
\* with a delay of 60, and there is no 4th execution.
C19_ThreeAttempts ==
  /\ \A i \in DOMAIN queue : queue[i].countdown = 60
  /\ backend.errors = {"ProviderError"} =>
       /\ backend.executions <= 3
       /\ backend.state = "FAILURE" => backend.executions = 3

\* what the attempt of worker w holds when it begins
Fresh(w) ==
  /\ loc[w].args = backend.args
  /\ loc[w].chunks = backend.args.chunks
  /\ loc[w].vectors = <<>>
  /\ loc[w].save_result = NoReceipt
  /\ loc[w].embedding_record_id = None
  /\ loc[w].steps = <<>> /\ loc[w].embedded = <<>> /\ loc[w].exc = ""

\* C20: while retries remain, an exception raised in any step of an attempt
\* of run_embedding becomes the same retry signal (Retry, countdown 60, the
\* arguments of the task as submitted), and every attempt begins at the
\* resolution of its input with those arguments and with no chunks, vectors
\* or receipts of an earlier attempt.
C20_RetryFresh ==
  \A w \in Workers :
    /\ (Ran(w) /\ loc[w].exc # "" /\ loc[w].retries < MAX_RETRIES) =>
         /\ ret[w] = Raised("Retry")
         /\ backend.state = "RETRY"
         /\ queue = <<Message(backend.args, loc[w].retries + 1, RETRY_COUNTDOWN)>>
    /\ pc[w] = "re_start" => Fresh(w)

\* the third retry begins after attempts that failed in the provider, in the
\* vector index and in the record store
C20_Witness ==
  \E w \in Workers :
    /\ pc[w] = "re_start" /\ loc[w].retries = 3
    /\ backend.errors = {"ProviderError", "UpsertError", "StoreError"}
    /\ points # <<>>

\* the points of the vector index after the upserts of batches, by id: an
\* upsert replaces the point that carries the same id
RECURSIVE IndexAfter(_)
IndexAfter(batches) ==
  IF batches = <<>> THEN EmptyCache
  ELSE LET before == IndexAfter(SubSeq(batches, 1, Len(batches) - 1))
           batch == batches[Len(batches)]
           ids == { batch[i].id : i \in DOMAIN batch }
       IN  [ id \in DOMAIN before \cup ids |->
               IF id \in ids
               THEN batch[CHOOSE i \in DOMAIN batch :
                            batch[i].id = id /\ \A j \in DOMAIN batch :
                                                   batch[j].id = id => j <= i]
               ELSE before[id] ]

\* C21: every attempt that completes its upsert adds one new point per chunk
\* and leaves the points of earlier attempts in the vector index as they
\* were written, so the retry of an attempt that failed after its upsert
\* leaves a second full set of points for the same user and file.
C21_AtLeastOnce ==
  LET index == IndexAfter(points)
  IN  /\ Cardinality(DOMAIN index) = NPoints(points)
      /\ \A b \in DOMAIN points : \A i \in DOMAIN points[b] :
           index[points[b][i].id] = points[b][i]
      /\ \A w \in Workers :
           pc[w] = "re_record" => Len(points[Len(points)]) = Len(loc[w].chunks)

\* the record insert of the first attempt failed after its upsert, the
\* retry succeeded, and the index holds two sets of two points for the file
C21_Witness ==
  /\ backend.state = "SUCCESS" /\ backend.errors = {"StoreError"}
  /\ Len(points) = 2
  /\ Cardinality(DOMAIN IndexAfter(points)) = 4
  /\ \A b \in DOMAIN points : \A i \in DOMAIN points[b] :
       /\ points[b][i].payload.file_id = "f1"
       /\ points[b][i].payload.user_id = "u1"

\* the calls an attempt makes to the vector index
IndexCalls == {"get_collections", "create_collection", "upsert"}

\* the attempt of worker w holds as many vectors as chunks, and at least one
Matched(w) ==
  loc[w].vectors # <<>> /\ Len(loc[w].vectors) = Len(loc[w].chunks)

\* the provider returned to the attempt of worker w, which is over
Embedded(w) ==
  /\ Ran(w)
  /\ Count(loc[w].steps, "embed_documents") = 1
  /\ loc[w].exc # "ProviderError"

\* C22: the vector index is called and written only when the provider
\* returned a non-empty list of as many vectors as there are chunks: an empty
\* list or a list of another length fails the attempt with ValueError before
\* the collection is provisioned and before any point is upserted, and no
\* batch is cut to the shorter list.
C22_NoWriteOnMismatch ==
  [][ \A w \in Workers :
        /\ (\E i \in DOMAIN loc'[w].steps : loc'[w].steps[i] \in IndexCalls) =>
             Matched(w)'
        /\ (Embedded(w)' /\ ~ Matched(w)') =>
             /\ loc'[w].exc = "ValueError" /\ ret'[w].kind = "raise"
        /\ (pc[w] = "re_save" /\ pc'[w] # "re_save" /\ ~ Matched(w)) =>
             points' = points /\ collection' = collection
        /\ (pc[w] = "re_save" /\ points' # points) =>
             Len(points'[Len(points')]) = Len(loc[w].chunks) ]_vars

\* the provider returned one vector for two chunks and the attempt failed
\* with nothing written to the vector index
C22_Witness ==
  \E w \in Workers :
    /\ Embedded(w)
    /\ Len(loc[w].vectors) = 1 /\ Len(loc[w].chunks) = 2
    /\ loc[w].exc = "ValueError"
    /\ points = <<>> /\ collection = 0

\* an attempt of run_embedding by worker w returned its result
Succeeded(w) == Ran(w) /\ ret[w].kind = "return"

\* C23: the embedding record is written only for a file_id: a successful
\* attempt with a file_id inserts one record, after its upsert, that carries
\* the receipt of the upsert, the number of chunks and the dimension; an
\* attempt without file_id inserts none and returns success with
\* embedding_record_id None.
C23_RecordOnlyForFile ==
  \A w \in Workers :
    /\ (loc[w].task = "run" /\ loc[w].args.file_id = None) =>
         /\ Count(loc[w].steps, "insert_one") = 0
         /\ records = <<>>
         /\ Succeeded(w) =>
              /\ ret[w].result.status = "success"
              /\ ret[w].result.embedding_record_id = None
    /\ (Succeeded(w) /\ loc[w].args.file_id # None) =>
         LET record == records[Len(records)]
         IN  /\ Count(loc[w].steps, "insert_one") = 1
             /\ loc[w].steps[Len(loc[w].steps)] = "insert_one"
             /\ ret[w].result.embedding_record_id = ToString(Len(records))
             /\ record.file_id = loc[w].args.file_id
             /\ record.user_id = loc[w].args.user_id
             /\ record.qdrant_operation = loc[w].save_result
             /\ record.qdrant_operation.points_processed = Len(points[Len(points)])
             /\ record.chunks_count = Len(loc[w].chunks)
             /\ record.vector_dimension = Len(loc[w].vectors[1])

\* a task without file_id succeeded on a retry, and no record was written
C23_Witness ==
  \E w \in Workers :
    /\ Succeeded(w) /\ loc[w].args.file_id = None
    /\ loc[w].retries >= 1 /\ points # <<>> /\ records = <<>>

\* the attempt of worker w ran the chunk pipeline
RanPipeline(w) == \E i \in DOMAIN loc[w].steps : loc[w].steps[i] \in FileCalls

\* C24: a non-empty list of chunks that is supplied is embedded as it is,
\* and the chunk pipeline is not run for it even when a file_id is given;
\* the chunk pipeline runs only for a file_id with empty or absent chunks.
C24_InputResolution ==
  \A w \in Workers :
    loc[w].task = "run" =>
      /\ loc[w].args.chunks \notin {NoList, <<>>} =>
           /\ ~ RanPipeline(w)
           /\ loc[w].chunks = loc[w].args.chunks
           /\ \A i \in DOMAIN loc[w].embedded : loc[w].embedded[i] = loc[w].args.chunks
      /\ RanPipeline(w) =>
           /\ loc[w].args.file_id # None
           /\ loc[w].args.chunks \in {NoList, <<>>}

\* chunks supplied together with a file_id went to the provider as they were
C24_Witness ==
  \E w \in Workers :
    /\ loc[w].task = "run" /\ loc[w].args.file_id = "f1"
    /\ loc[w].args.chunks = <<"a", "b">>
    /\ loc[w].embedded = << <<"a", "b">> >>


\* C25: a secondary task (search_similar, delete_file_embeddings,
\* delete_model, cleanup_old_models, get_cache_info) never raises to its
\* caller: when the cache, the provider or the vector index raised inside
\* it, it returns status "error" with the type of the exception; otherwise
\* it returns status "success".
C25_NeverRaises ==
  [][\A w \in Workers :
       (pc[w] \in {"done", "sec_done"} /\ pc'[w] = "idle") =>
          /\ backend'.state = "SUCCESS"
          /\ IF ret[w].kind = "raise"
             THEN /\ backend'.result.status = "error"
                  /\ backend'.result.error_type = ret[w].exc
             ELSE backend'.result.status = "success"]_vars

\* get_cache_info returned an error result after a search_similar task
\* changed the cache under its loop
C25_Witness ==
  /\ last.op = "info"
  /\ backend.state = "SUCCESS"
  /\ backend.result.status = "error"
  /\ backend.result.error_type = "RuntimeError"

\* the calls the chunk pipeline makes after its type check
AfterTypeCheck ==
  {"download_file_by_url", "download_file_by_path", "create_temp_file",
   "load_documents", "cleanup_temp_file"}

\* the attempt of worker w made one of the calls
Made(w, calls) == \E i \in DOMAIN loc[w].steps : loc[w].steps[i] \in calls

\* C26: the chunk pipeline looks the file record up first, and a missing
\* record fails the call before the type check; a declared type outside the
\* supported set fails the call before any blob fetch, temp-file creation or
\* document processing.
C26_CheckOrder ==
  \A w \in Workers :
    /\ Made(w, FileCalls) => loc[w].steps[1] = "get_file_by_id"
    /\ loc[w].file_doc.none => ~ Made(w, FileCalls \ {"get_file_by_id"})
    /\ loc[w].file_doc.file_type = "image/png" =>
         /\ ~ Made(w, AfterTypeCheck)
         /\ Made(w, {"is_supported_file_type"}) =>
              (loc[w].outcome.kind = "raise" /\ loc[w].outcome.exc = "ValueError")

\* the pipeline failed on a file of an unsupported type, after the lookup
\* and the type check only
C26_Witness ==
  \E w \in Workers :
    /\ pc[w] = "re_except"
    /\ loc[w].file_doc.file_type = "image/png"
    /\ loc[w].steps = <<"get_file_by_id", "is_supported_file_type">>
    /\ loc[w].exc = "ValueError"

\* the page contents that are not whitespace only, in their order
NonBlank(documents) ==
  SelectSeq(documents, LAMBDA page_content : page_content \notin {"", " ", "\n"})

\* C27: whenever the chunk pipeline returns, its result is a non-empty list
\* of non-blank strings: the splitter's output without its whitespace-only
\* chunks, in the same order; with no documents, or only whitespace chunks,
\* the pipeline fails with a ValueError and returns no list.
C27_NonBlankChunks ==
  \A w \in Workers :
    /\ loc[w].outcome.kind = "return" =>
         /\ loc[w].outcome.chunks # <<>>
         /\ loc[w].documents # NoList
    /\ (loc[w].outcome.kind # "none" /\ loc[w].documents # NoList) =>
         IF NonBlank(loc[w].documents) = <<>>
         THEN loc[w].outcome.kind = "raise" /\ loc[w].outcome.exc = "ValueError"
         ELSE /\ loc[w].outcome.kind = "return"
              /\ loc[w].outcome.chunks = NonBlank(loc[w].documents)

\* the pipeline returned the two chunks with text of three, in their order,
\* and run_embedding embedded them
C27_Witness ==
  \E w \in Workers :
    /\ loc[w].documents = <<" x ", "\n", "y">>
    /\ loc[w].outcome.kind = "return"
    /\ loc[w].chunks = <<" x ", "y">>
    /\ loc[w].embedded = << <<" x ", "y">> >>

\* worker w is inside run_async_in_thread, its loop made and not yet closed
OnLoop(w) ==
  pc[w] \in {"pl_lookup", "pl_type", "pl_download", "pl_process", "pl_extract",
             "br_close"}

\* worker w is inside run_async_in_thread, its thread started
InBridge(w) == OnLoop(w) \/ pc[w] \in {"br_loop", "br_join", "br_return"}

\* the call of run_async_in_thread that worker w made has returned
Bridged(w) == loc[w].loop # 0 /\ ~ InBridge(w)

\* C28: every run_async_in_thread call makes its own event loop on a thread
\* of its own, runs the operation there, closes the loop and releases the
\* thread whether the operation returned or raised, and only then hands the
\* value or the exception to its caller; no loop stays open after its call
\* returned.
C28_BridgeTearDown ==
  /\ \A i \in DOMAIN loops :
       loops[i].state # "closed" => \E w \in Workers : loc[w].loop = i /\ OnLoop(w)
  /\ \A i \in DOMAIN threads :
       threads[i].state # "joined" =>
         \E w \in Workers : loc[w].thread = i /\ InBridge(w) /\ pc[w] # "br_return"
  /\ \A w \in Workers :
       /\ loc[w].loop # 0 =>
            /\ loops[loc[w].loop].thread = loc[w].thread
            /\ threads[loc[w].thread].caller = w
       /\ Bridged(w) =>
            /\ loops[loc[w].loop].state = "closed"
            /\ threads[loc[w].thread].state = "joined"
            /\ loc[w].outcome.kind \in {"return", "raise"}
            /\ loc[w].outcome.kind = "return" => loc[w].chunks = loc[w].outcome.chunks
            /\ loc[w].outcome.kind = "raise" => loc[w].exc = loc[w].outcome.exc

\* a call whose operation raised has returned: its exception is raised in
\* run_embedding, its loop is closed and its thread joined
C28_Witness ==
  \E w \in Workers :
    /\ pc[w] = "re_except" /\ Bridged(w)
    /\ loc[w].outcome.kind = "raise" /\ loc[w].exc = "StoreError"
    /\ loops[loc[w].loop].state = "closed"
    /\ threads[loc[w].thread].state = "joined"

\* C29: two run_async_in_thread calls that overlap never run on the same
\* event loop or the same thread, and a step of one call (the closing of
\* its loop among them) leaves the loop and the thread of the other call as
\* they are.
C29_BridgeIsolation ==
  [][/\ \A v, w \in Workers :
          (v # w /\ InBridge(v)' /\ InBridge(w)') =>
             /\ loc'[v].thread # loc'[w].thread
             /\ (loc'[v].loop # 0 /\ loc'[w].loop # 0) => loc'[v].loop # loc'[w].loop
     /\ \A w \in Workers :
          (InBridge(w) /\ loc[w].loop # 0 /\ pc'[w] = pc[w]) =>
             /\ loops'[loc[w].loop] = loops[loc[w].loop]
             /\ threads'[loc[w].thread] = threads[loc[w].thread]]_vars

\* the loop of one call is closed while the operation of another call runs
\* on its own loop, which is open
C29_Witness ==
  \E v, w \in Workers :
    /\ pc[v] = "br_join" /\ pc[w] = "pl_download"
    /\ loc[v].loop # loc[w].loop /\ loc[v].thread # loc[w].thread
    /\ loops[loc[v].loop].state = "closed"
    /\ loops[loc[w].loop].state = "open"

\* the client worker w obtained from get_embedder is still the cache's: the
\* entry of its key was not removed since the client was returned
Owned(w) == loc[w].embedder \in handed[loc[w].cache_key]

\* C30: the cache is the sole owner of a client: once an entry was removed
\* by delete_embedder or cleanup_old_embedders, no task makes a provider
\* call with its client, not even a run_embedding or search_similar that
\* obtained the client before the removal.
C30_SoleOwner ==
  [][\A w \in Workers :
       (pc[w] \in {"re_embed", "ss_embed"} /\ pc'[w] # pc[w]) => Owned(w)]_vars

\* worker w leaves save_embeddings in this step
Saves(w) == pc[w] = "re_save" /\ pc'[w] # "re_save"

\* C34: save_embeddings creates the collection only when it does not exist,
\* with the size of the first vector of the batch; an existing collection
\* is never created again or resized by a batch of another dimension; and
\* a failure of the check or of the creation does not fail the attempt by
\* itself: the upsert is still issued.
C34_Provisioning ==
  [][\A w \in Workers :
       Saves(w) =>
         /\ collection # 0 => collection' = collection
         /\ collection = 0 => collection' \in {0, Len(loc[w].vectors[1])}
         /\ Count(loc'[w].steps, "create_collection") = 1 => collection = 0
         /\ Len(loc[w].chunks) = Len(loc[w].vectors) =>
              Count(loc'[w].steps, "upsert") = 1]_vars

\* a retry brought vectors of dimension 2 to a collection of size 1: the
\* collection is as it was, and the upsert was issued and failed
C34_Witness ==
  \E w \in Workers :
    /\ pc[w] = "re_except" /\ loc[w].exc = "UpsertError"
    /\ collection = 1 /\ Len(loc[w].vectors[1]) = 2
    /\ Count(loc[w].steps, "create_collection") = 0
    /\ Count(loc[w].steps, "upsert") = 1

\* C35: every value run_embedding returns is a success result with
\* vectors_created = chunks_processed >= 1, vector_dimension the length of
\* the first vector and qdrant_operation the receipt of the one upsert of
\* the attempt; a failed attempt returns no value: it leaves through Retry
\* or the raised error, and no result of status "error" is ever returned.
C35_ReturnsSuccessOnly ==
  /\ backend.result.status \in {"none", "success"}
  /\ \A w \in Workers :
       Ran(w) =>
         /\ ret[w].kind \in {"return", "raise"}
         /\ loc[w].exc # "" =>
              /\ ret[w].kind = "raise"
              /\ ret[w].exc \in {"Retry", loc[w].exc}
              /\ ret[w].result.status = "none"
         /\ ret[w].kind = "return" =>
              LET result == ret[w].result
              IN  /\ loc[w].exc = ""
                  /\ result.status = "success"
                  /\ result.vectors_created = result.chunks_processed
                  /\ result.chunks_processed = Len(loc[w].chunks)
                  /\ result.chunks_processed >= 1
                  /\ result.vector_dimension = Len(loc[w].vectors[1])
                  /\ Count(loc[w].steps, "upsert") = 1
                  /\ result.qdrant_operation =
                       [status |-> "success",
                        points_processed |-> Len(points[Len(points)])]
                  /\ Len(points[Len(points)]) = result.chunks_processed

\* the last execution returned the result of a file of two chunks, embedded
\* into vectors of dimension 1, after earlier executions had failed
C35_Witness ==
  \E w \in Workers :
    /\ Ran(w) /\ ret[w].kind = "return" /\ loc[w].retries = 2
    /\ ret[w].result.chunks_processed = 2
    /\ ret[w].result.vector_dimension = 1
    /\ ret[w].result.file_id = "f1"
    /\ backend.errors # {}

\* the attempt of worker w has failed
Failed(w) == loc[w].task = "run" /\ pc[w] \in {"re_except", "ran"} /\ loc[w].exc # ""

\* C36: a failed attempt of run_embedding leaves exactly the store writes
\* of the steps it completed and undoes none: a failure before the upsert
\* succeeded leaves the vector index and the record store as the attempt
\* found them, a failure of the record insert leaves the attempt's points
\* in the index and no record, and a cache entry the attempt created stays
\* cached.
C36_FailureFrame ==
  \A w \in Workers :
    Failed(w) =>
      /\ records = loc[w].records0
      /\ loc[w].save_result.status = "none" => points = loc[w].points0
      /\ Count(loc[w].steps, "insert_one") = 1 =>
           /\ Len(points) = Len(loc[w].points0) + 1
           /\ SubSeq(points, 1, Len(loc[w].points0)) = loc[w].points0
           /\ Len(points[Len(points)]) = Len(loc[w].chunks)
           /\ \A i \in 1 .. Len(loc[w].chunks) :
                points[Len(points)][i].payload.text = loc[w].chunks[i]
      /\ loc[w].embedder # 0 =>
           /\ loc[w].cache_key \in DOMAIN cache
           /\ cache[loc[w].cache_key].embedder = loc[w].embedder

\* a retry whose record insert failed: the points of an earlier attempt and
\* its own are in the index, no record is stored, and its client is cached
C36_Witness ==
  \E w \in Workers :
    /\ Failed(w) /\ loc[w].exc = "StoreError"
    /\ Count(loc[w].steps, "insert_one") = 1
    /\ loc[w].points0 # <<>> /\ Len(points) = Len(loc[w].points0) + 1
    /\ records = <<>>
    /\ loc[w].cache_key \in DOMAIN cache

\* get_embedder of worker w has returned for a key whose entry the task
\* before it removed
AfterRemoval(w) ==
  /\ pc[w] = "done" /\ loc[w].op = "get" /\ ret[w].kind = "return"
  /\ loc[w].cache_key \in DOMAIN last.removed

\* C37: after delete_embedder or cleanup_old_embedders removed an entry, the
\* next get_embedder for the same provider, model_id and credential behaves
\* as a first use: it constructs a client that is not the evicted one and
\* inserts an entry with use_count = 0 and stamps of its own, taking nothing
\* from the removed entry.
C37_FreshAfterRemoval ==
  \A w \in Workers :
    AfterRemoval(w) =>
      LET key == loc[w].cache_key
          old == last.removed[key]
          new == cache[key]
      IN  /\ new.embedder # old.embedder
          /\ new.embedder = Len(clients)
          /\ ret[w].embedder = new.embedder
          /\ new.use_count = 0
          /\ new.created_at = loc[w].created_at /\ new.created_at >= old.created_at
          /\ new.last_used = loc[w].last_used /\ new.last_used >= old.last_used

\* an entry created at time 0 was swept, and the next get_embedder of its
\* key made a second client and an entry stamped later
C37_Witness ==
  \E w \in Workers :
    /\ AfterRemoval(w) /\ last.op = "cleanup"
    /\ last.removed[loc[w].cache_key].embedder = 1
    /\ cache[loc[w].cache_key].embedder = 2
    /\ cache[loc[w].cache_key].created_at > last.removed[loc[w].cache_key].created_at
    /\ cache[loc[w].cache_key].use_count = 0

\* the sweep of worker w is over and its scan (lines 188-191) had completed
ScanCompleted(w) ==
  /\ loc[w].op = "cleanup" /\ pc[w] = "done"
  /\ ~(ret[w].kind = "raise" /\ ret[w].exc = "RuntimeError")

\* C38: cleanup_old_embedders returns the number of entries this call itself
\* removed: when another worker removes a key between the sweep's scan and
\* the sweep's own delete of that key, the sweep does not fail and does not
\* count that key.
C38_CountsOwnRemovals ==
  \A w \in Workers :
    ScanCompleted(w) =>
      /\ ret[w].kind = "return"
      /\ ret[w].count = loc[w].deleted_count

\* the arguments of the run_embedding tasks that embed the chunks they are
\* given
ChunkArgs ==
  {args \in RunArgs : args.file_id = None /\ args.chunks = <<"a", "b">>}

\* no other worker is inside get_embedder or a secondary task: each is free,
\* or is a run_embedding execution past its get_embedder (line 82)
Parked(w) ==
  \A v \in Workers \ {w} : pc[v] \in {"idle", "re_embed", "re_except"}

\* a task begins when the others are parked; the cache is noted as it is
Apart(w) == Parked(w) /\ Take /\ snap' = [snap EXCEPT ![w] = cache]

\* the steps of run_embedding up to the assignment of line 82
RunToEmbedder(w) ==
  \/ RunStart(w) \/ RunResolve(w) \/ RunCheck(w) \/ RunGetEmbedder(w) \/ RunGot(w)

\* the steps of search_similar and of cleanup_old_models
SearchOrSweep(w) ==
  \/ SearchGetEmbedder(w) \/ SearchGot(w) \/ SearchEmbed(w) \/ SearchQuery(w)
  \/ DelCheck(w) \/ DelLoad(w) \/ DelDel(w)
  \/ CleanupTime(w) \/ CleanupIter(w) \/ CleanupNext(w) \/ CleanupDelete(w)
  \/ SecReturn(w)

\* run_embedding executions, each followed to the assignment of line 82,
\* with searches and sweeps between them on the cache of one process; the
\* calls of get_embedder do not overlap
NextShare ==
  \/ \E w \in Workers, args \in ChunkArgs :
       Parked(w) /\ begun < MaxTasks /\ BeginRun(w, args)
  \/ \E w \in Workers, args \in SearchArgs : Apart(w) /\ SubmitSearch(w, args)
  \/ \E w \in Workers, max_age_seconds \in MaxAges :
       Apart(w) /\ CallCleanup(w, max_age_seconds)
  \/ \E w \in Workers : RunToEmbedder(w)
  \/ \E w \in Workers : GetStep(w)
  \/ \E w \in Workers : SearchOrSweep(w)

SpecShare == Init /\ [][NextShare]_vars

\* the get_embedder call of the search_similar task of worker w is over
SearchLookedUp(w) ==
  pc[w] = "done" /\ loc[w].task = "search" /\ loc[w].op = "get"

\* worker v is a run_embedding execution that holds the client of the entry
\* that was cached under key when the search of worker w began
RanBefore(v, w, key) ==
  /\ loc[v].task = "run" /\ pc[v] = "re_embed"
  /\ loc[v].args.provider = loc[w].args.provider
  /\ loc[v].args.model_id = loc[w].args.model_id
  /\ loc[v].args.credential = loc[w].args.credential
  /\ key \in DOMAIN snap[w] /\ snap[w][key].embedder = loc[v].embedder

\* C32: search_similar obtains its client through the cache path of
\* run_embedding: a search with the provider, model_id and credential of an
\* earlier run_embedding is handed that run's client instance and counts as a
\* hit (use_count + 1, last_used refreshed), so that a sweep finds the entry
\* stale no sooner than before; a search on an uncached key inserts a new
\* entry.
C32_SearchSharesCache ==
  \A w \in Workers :
    SearchLookedUp(w) /\ ret[w].kind = "return" =>
      LET key == loc[w].cache_key
      IN  /\ key \in DOMAIN cache
          /\ ret[w].embedder = cache[key].embedder
          /\ \A v \in Workers \ {w} :
               RanBefore(v, w, key) => ret[w].embedder = loc[v].embedder
          /\ IF key \in DOMAIN snap[w]
             THEN /\ cache[key].embedder = snap[w][key].embedder
                  /\ cache[key].use_count = snap[w][key].use_count + 1
                  /\ cache[key].created_at = snap[w][key].created_at
                  /\ cache[key].last_used = loc[w].last_used
                  /\ cache[key].last_used >= snap[w][key].last_used
                  /\ \A t \in 0 .. MaxTime, age \in MaxAges :
                       Stale(cache[key], t, age) => Stale(snap[w][key], t, age)
                  /\ DOMAIN cache = DOMAIN snap[w]
             ELSE /\ cache[key].use_count = 0
                  /\ cache[key].embedder = Len(clients)
                  /\ DOMAIN cache = DOMAIN snap[w] \cup {key}

\* a search was handed the client of an earlier run_embedding and refreshed
\* the entry, which a sweep of max age 0 at that time would else have removed
C32_Witness ==
  \E w \in Workers, v \in Workers :
    /\ v # w
    /\ SearchLookedUp(w) /\ ret[w].kind = "return"
    /\ RanBefore(v, w, loc[w].cache_key)
    /\ ret[w].embedder = loc[v].embedder
    /\ cache[loc[w].cache_key].use_count = 1
    /\ Stale(snap[w][loc[w].cache_key], now, 0)
    /\ ~ Stale(cache[loc[w].cache_key], now, 0)

\* process_file_content was called by worker w and is over
Processed(w) ==
  /\ Made(w, {"create_temp_file"})
  /\ pc[w] \in {"pl_extract", "br_close", "br_join", "br_return"}

\* C33: the temporary file process_file_content creates is released on every
\* path: after the call returned or raised, the file it created no longer
\* exists, and no temporary file is created once the type check failed.
C33_TempFileReleased ==
  \A w \in Workers :
    /\ Processed(w) => loc[w].temp_file # "exists"
    /\ ~ Made(w, {"create_temp_file"}) => loc[w].temp_file = "none"

\* the arguments of two run_embedding tasks for one file of one user, with
\* the chunks given
SameFileArgs ==
  {args \in RunArgs :
     /\ args.file_id # None /\ args.chunks = <<"a", "b">>
     /\ ~ args.credential.none}

\* the steps of an execution of run_embedding with its chunks given, to its
\* return or its raise
RunToEnd(w) ==
  \/ RunStart(w) \/ RunResolve(w) \/ RunCheck(w) \/ RunGetEmbedder(w) \/ RunGot(w)
  \/ RunEmbed(w) \/ RunVectors(w) \/ RunSave(w) \/ RunRecord(w)
  \/ RunResult(w) \/ RunExcept(w)

\* a step of the execution of worker w, the clock standing still
PairStep(w) == (RunToEnd(w) \/ GetStep(w)) /\ now' = now

\* an execution of run_embedding begins on the first free worker
BeginPair(w, args) ==
  /\ \A v \in Workers : v < w => pc[v] # "idle"
  /\ BeginRun(w, args)

\* two executions of run_embedding for the same file overlap on two workers,
\* within one tick of the clock; each is followed to its end
NextPair ==
  \/ \E w \in Workers, args \in SameFileArgs : BeginPair(w, args) /\ now' = now
  \/ \E w \in Workers : PairStep(w)

SpecPair == Init /\ [][NextPair]_vars

\* the execution of run_embedding on worker w returned its success result
\* (DONE)
Done(w) ==
  loc[w].task = "run" /\ pc[w] = "ran" /\ ret[w].kind = "return"

\* the execution of worker w has begun and has not ended
Running(w) == loc[w].task = "run" /\ pc[w] # "ran"

\* the ids of the points of a sequence of batches
PointIds(batches) ==
  { batches[i][j].id : i \in DOMAIN batches, j \in 1 .. 2 }

\* C31: no in-process lock serializes embedding runs of the same file: two
\* run_embedding tasks for the same user_id and file_id on different workers
\* never block each other, both can reach DONE, and afterwards the vector
\* index holds the points of both runs and the record store holds one
\* provenance record per run.
C31_NoSerialization ==
  /\ \A w \in Workers : Running(w) => ENABLED PairStep(w)
  /\ Cardinality({w \in Workers : Done(w)}) <= Len(records)
  /\ Len(records) <= Len(points)
  /\ (\A w \in Workers : Done(w)) =>
       /\ Len(points) = Cardinality(Workers)
       /\ Len(records) = Cardinality(Workers)
       /\ \A i \in DOMAIN points :
            /\ Len(points[i]) = 2
            /\ \A j \in 1 .. 2 : points[i][j].payload.file_id = "f1"
                                 /\ points[i][j].payload.user_id = "u1"
       /\ Cardinality(PointIds(points)) = 2 * Cardinality(Workers)
       /\ \A i \in DOMAIN records : records[i].file_id = "f1"
       /\ \A v, w \in Workers :
            v # w => ret[v].result.embedding_record_id # ret[w].result.embedding_record_id

\* both executions overlapped, each saved its points before the other
\* returned, and both returned success
C31_Witness ==
  /\ \A w \in Workers : Done(w)
  /\ Len(points) = 2 /\ Len(records) = 2
  /\ NPoints(points) = 4

=========================================================================
